---- MODULE Spec2Model ----
(***************************************************************************)
(* A model of svelte-to-component (src/src/main.ts and its lib/types       *)
(* modules): the template-mode translator convertNodeToTwig, the           *)
(* value-mode translator convertNodeToObjectLiteral, the component context *)
(* builder, the metadata serializer and the processFiles batch loop.       *)
(*                                                                         *)
(* Text is modelled as a sequence of non-empty string tokens, one token    *)
(* per literal piece or interpolated field of the source's template        *)
(* strings; Flat gives the string itself.  A call of a translator is       *)
(* modelled by its result record                                           *)
(*     [out |-> text, log |-> console entries, ok |-> no exception left]   *)
(* so that a raised exception (ok = FALSE) and the console output are part *)
(* of what is computed.                                                    *)
(***************************************************************************)
EXTENDS Integers, Sequences, FiniteSets, TLC

VARIABLES
  options,       \* ProcessFilesOptions of the run
  node,          \* translator input: the AST node handed to a translator
  mode,          \* "idle", "twig" or "object": which translator has run on node
  res,           \* result record of the translator call on node
  astIn,         \* the parsed component: [instance, html]
  pathIn,        \* path of the component file
  componentYml,  \* the sidecar component.yml document, NoFile when absent
  contextOut,    \* what createComponentContext returned: [context, log, ok]
  defInferred,   \* def of convertNodeToComponentDef just before the merge
  defMerged,     \* def after def = merge(def, context.component)
  componentDef,  \* the document convertNodeToComponentDef returns
  step,          \* "parsed", "context", "raised" or "def"
  files,         \* the files the glob matches, in the order forEach visits them
  phase,         \* processFiles: "start", "loop", "returned"
  idx,           \* index of the file the forEach visits next
  done,          \* indexes of the files whose processFile call completed
  writes,        \* the files written so far, in order: [path, kind, content]
  pending,       \* saveTwigToFile calls awaiting prettier.format: [path, template]
  console,       \* console entries of processFiles itself
  stack,         \* the calls in progress of a recursion, the innermost last:
                 \* [node, tr, todo, raises]
  deepest        \* the largest number of calls that were in progress at once

tvars == <<options, node, mode, res>>
cvars == <<astIn, pathIn, componentYml, contextOut, defInferred, defMerged,
           componentDef, step>>
bvars == <<files, phase, idx, done, writes, pending, console>>
wvars == <<stack, deepest>>
vars == <<options, node, mode, res, astIn, pathIn, componentYml, contextOut,
          defInferred, defMerged, componentDef, step, files, phase, idx, done,
          writes, pending, console, stack, deepest>>

----------------------------------------------------------------------------
(* JavaScript values and text *)

\* a property that is absent reads as undefined; so does a null child
Undefined == [nullish |-> TRUE]
Has(n, f) == f \in DOMAIN n
IsNullish(n) == Has(n, "nullish")
Get(n, f) == IF Has(n, f) THEN n[f] ELSE Undefined
\* `${x.f}` of a string property: the text, or "undefined" when absent
Str(n, f) == IF Has(n, f) THEN n[f] ELSE "undefined"
Type(n) == IF Has(n, "type") THEN n.type ELSE "undefined"
\* Attribute.value is either the boolean true or an array of nodes
JsTrue == [bool |-> TRUE]
IsArr(v) == Has(v, "arr")

Tok(s) == IF s = "" THEN <<>> ELSE <<s>>

RECURSIVE Flat(_)
Flat(toks) == IF toks = <<>> THEN "" ELSE Head(toks) \o Flat(Tail(toks))

----------------------------------------------------------------------------
(* Results of evaluating a piece of a dispatch rule, left to right *)

Ok(out) == [out |-> out, log |-> <<>>, ok |-> TRUE]
Lit(s) == Ok(Tok(s))
Throw == [out |-> <<>>, log |-> <<>>, ok |-> FALSE]
Logged(entry) == [out |-> <<>>, log |-> <<entry>>, ok |-> TRUE]

\* a then b: b is not evaluated once a has raised
Then(a, b) ==
  IF ~a.ok THEN a
  ELSE [out |-> a.out \o b.out, log |-> a.log \o b.log, ok |-> b.ok]

RECURSIVE SeqnFrom(_, _)
SeqnFrom(parts, i) ==
  IF i > Len(parts) THEN Ok(<<>>)
  ELSE Then(parts[i], SeqnFrom(parts, i + 1))
Seqn(parts) == SeqnFrom(parts, 1)

\* xs.map(f): every call is made, in order, before anything is joined
Effects(rs) == [Seqn(rs) EXCEPT !.out = <<>>]
Outs(rs) == [i \in 1..Len(rs) |-> rs[i].out]

\* strs.join(sep) on texts
RECURSIVE JoinToks(_, _)
JoinToks(outs, sep) ==
  IF outs = <<>> THEN <<>>
  ELSE IF Len(outs) = 1 THEN outs[1]
  ELSE outs[1] \o Tok(sep) \o JoinToks(Tail(outs), sep)

\* xs.map(f).join(sep), rs being the results of f on the elements of xs
JoinRes(rs, sep) == Then(Effects(rs), Ok(JoinToks(Outs(rs), sep)))
\* xs.map(f).filter(a => a.length).join(sep)
JoinNonEmpty(rs, sep) ==
  Then(Effects(rs), Ok(JoinToks(SelectSeq(Outs(rs), LAMBDA o : o # <<>>), sep)))
\* xs.map(f).filter(a => a !== "''").join(sep)
JoinNotEmptyQuotes(rs, sep) ==
  Then(Effects(rs),
       Ok(JoinToks(SelectSeq(Outs(rs), LAMBDA o : Flat(o) # "''"), sep)))

----------------------------------------------------------------------------
(* Small pure helpers of main.ts *)

selfClosingTags ==
  {"area", "base", "br", "col", "embed", "hr", "img", "input", "link",
   "meta", "param", "source", "track", "wbr"}
\* no tag name counts as self-closing
isSelfClosingTagNever(name) == FALSE

isSelfClosingTag(name) == name \in selfClosingTags

\* the characters of the component tag names that occur in the inputs
CharsOf(name) ==
  CASE name = "My-Widget" -> <<"M", "y", "-", "W", "i", "d", "g", "e", "t">>
    [] name = "Card" -> <<"C", "a", "r", "d">>
    [] name = "ui.Tab_2" -> <<"u", "i", ".", "T", "a", "b", "_", "2">>
    [] OTHER -> <<name>>

Upper == <<"A", "B", "C", "D", "E", "F", "G", "H", "I", "J", "K", "L", "M",
           "N", "O", "P", "Q", "R", "S", "T", "U", "V", "W", "X", "Y", "Z">>
Lower == <<"a", "b", "c", "d", "e", "f", "g", "h", "i", "j", "k", "l", "m",
           "n", "o", "p", "q", "r", "s", "t", "u", "v", "w", "x", "y", "z">>
Digits == <<"0", "1", "2", "3", "4", "5", "6", "7", "8", "9">>
Range(f) == {f[i] : i \in DOMAIN f}

\* c.replace(/[^a-zA-Z0-9]/g, '-') on one character
ReplaceNonAlnum(c) ==
  IF c \in Range(Upper) \cup Range(Lower) \cup Range(Digits) THEN c ELSE "-"
\* the character kept in its case
ToLowerCharKept(c) == c

\* c.toLowerCase() on one character
ToLowerChar(c) ==
  IF c \in Range(Upper)
  THEN Lower[CHOOSE i \in DOMAIN Upper : Upper[i] = c]
  ELSE c

\* `${options.theme}:${node.name.replace(/[^a-zA-Z0-9]/g, '-').toLowerCase()}`
inlineComponentId(name, opts) ==
  LET cs == CharsOf(name)
  IN Str(opts, "theme") \o ":" \o
     Flat([i \in 1..Len(cs) |-> ToLowerChar(ReplaceNonAlnum(cs[i]))])

\* [...xs].sort((a, b) => a.start - b.start): a stable sort by offset
RECURSIVE InsertByStart(_, _)
InsertByStart(sorted, x) ==
  IF sorted = <<>> THEN <<x>>
  ELSE IF x.start < Head(sorted).start THEN <<x>> \o sorted
  ELSE <<Head(sorted)>> \o InsertByStart(Tail(sorted), x)
RECURSIVE SortFrom(_, _, _)
SortFrom(xs, i, acc) ==
  IF i > Len(xs) THEN acc ELSE SortFrom(xs, i + 1, InsertByStart(acc, xs[i]))
SortByStart(xs) == SortFrom(xs, 1, <<>>)

\* node.attributes.find(attr => attr.name === 'slot'): a wrong attribute key
FindNameAttributeWrongKey(attrs) ==
  LET hits == {i \in 1..Len(attrs) : Has(attrs[i], "name") /\ attrs[i].name = "slot"}
  IN IF hits = {} THEN 0 ELSE CHOOSE i \in hits : \A j \in hits : i <= j

\* node.attributes.find(attr => attr.name === 'name'): its index, 0 if none
FindNameAttribute(attrs) ==
  LET hits == {i \in 1..Len(attrs) : Has(attrs[i], "name") /\ attrs[i].name = "name"}
  IN IF hits = {} THEN 0 ELSE CHOOSE i \in hits : \A j \in hits : i <= j

\* the operator both translators emit for a BinaryExpression
\* the operator of the source kept as it is
binaryOperatorKept(op) == op

binaryOperator(op) ==
  CASE op \in {"===", "=="} -> "=="
    [] op \in {"!==", "!="} -> "!="
    [] OTHER -> op

----------------------------------------------------------------------------
(* The two translators *)

RECURSIVE convertNodeToTwig(_, _), convertNodeToObjectLiteral(_, _)

TwigAll(xs, opts) == [i \in 1..Len(xs) |-> convertNodeToTwig(xs[i], opts)]
ObjAll(xs, opts) == [i \in 1..Len(xs) |-> convertNodeToObjectLiteral(xs[i], opts)]
\* n[f].map(convertNodeToTwig).join(sep); n[f] undefined raises a TypeError
MapTwig(n, f, opts, sep) ==
  IF Has(n, f) THEN JoinRes(TwigAll(n[f], opts), sep) ELSE Throw
MapObj(n, f, opts, sep) ==
  IF Has(n, f) THEN JoinRes(ObjAll(n[f], opts), sep) ELSE Throw
Twig(n, f, opts) == convertNodeToTwig(Get(n, f), opts)
Obj(n, f, opts) == convertNodeToObjectLiteral(Get(n, f), opts)

TwigAttribute(n, opts) ==
  IF Has(n, "value") /\ n.value = JsTrue THEN Lit(Str(n, "name"))
  ELSE IF ~Has(n, "value") \/ ~IsArr(n.value) THEN Throw
  ELSE Seqn(<<Lit(Str(n, "name")), Lit("=\""),
              JoinRes(TwigAll(n.value.arr, opts), ""), Lit("\"")>>)

TwigAttributeShorthand(n, opts) ==
  IF ~Has(n, "expression") THEN Throw
  ELSE Seqn(<<Lit("{{ "), Lit(Str(n.expression, "name")), Lit(" }}")>>)

TwigBinaryExpression(n, opts) ==
  Seqn(<<Twig(n, "left", opts), Lit(" "), Lit(binaryOperator(Str(n, "operator"))),
         Lit(" "), Twig(n, "right", opts)>>)

TwigCallExpression(n, opts) ==
  IF ~Has(n, "callee") THEN Throw
  ELSE IF Type(n.callee) = "MemberExpression" /\ ~Has(n.callee, "object") THEN Throw
  ELSE IF Type(n.callee) = "MemberExpression"
          /\ Str(n.callee.object, "name") = "Object"
          /\ ~Has(n.callee, "property") THEN Throw
  ELSE IF Type(n.callee) = "MemberExpression"
          /\ Str(n.callee.object, "name") = "Object"
          /\ Str(n.callee.property, "name") = "entries"
       THEN MapTwig(n, "arguments", opts, ", ")
  ELSE Seqn(<<Twig(n, "callee", opts), Lit("("),
              MapTwig(n, "arguments", opts, ", "), Lit(")")>>)

TwigConditionalExpression(n, opts) ==
  Seqn(<<Twig(n, "test", opts), Lit(" ? "), Obj(n, "consequent", opts),
         Lit(" : "), Obj(n, "alternate", opts)>>)

TwigFragment(n, opts) ==
  IF Has(n, "children") THEN MapTwig(n, "children", opts, "") ELSE Ok(<<>>)

TwigLogicalExpression(n, opts) ==
  Seqn(<<Twig(n, "left", opts), Lit(" "),
         Lit(IF Str(n, "operator") = "&&" THEN "and" ELSE "or"), Lit(" "),
         Twig(n, "right", opts)>>)

TwigElement(n, opts) ==
  LET attributes == MapTwig(n, "attributes", opts, " ")
      children == MapTwig(n, "children", opts, "")
  IN IF isSelfClosingTag(Str(n, "name"))
     THEN Seqn(<<[attributes EXCEPT !.out = <<>>], [children EXCEPT !.out = <<>>],
                 Lit("<"), Lit(Str(n, "name")), Lit(" "), Ok(attributes.out),
                 Lit(" />")>>)
     ELSE Seqn(<<[attributes EXCEPT !.out = <<>>], [children EXCEPT !.out = <<>>],
                 Lit("<"), Lit(Str(n, "name")), Lit(" "), Ok(attributes.out),
                 Lit(">"), Ok(children.out), Lit("</"), Lit(Str(n, "name")),
                 Lit(">")>>)

TwigMemberExpression(n, opts) ==
  Seqn(<<Twig(n, "object", opts), Lit("."), Twig(n, "property", opts)>>)

TwigMustacheTag(n, opts) ==
  IF ~Has(n, "expression") THEN Throw
  ELSE IF Type(n.expression) = "TemplateLiteral" THEN Twig(n, "expression", opts)
  ELSE Seqn(<<Lit("{{ "), Twig(n, "expression", opts), Lit(" }}")>>)

\* the if block without its endif
TwigIfBlockUnclosed(n, opts) ==
  LET condition == Twig(n, "expression", opts)
      ifChildren == MapTwig(n, "children", opts, "")
  IN Seqn(<<[condition EXCEPT !.out = <<>>], [ifChildren EXCEPT !.out = <<>>],
            Lit("{% if "), Ok(condition.out), Lit(" %}"), Ok(ifChildren.out)>>)

TwigIfBlock(n, opts) ==
  LET condition == Twig(n, "expression", opts)
      ifChildren == MapTwig(n, "children", opts, "")
  IN Seqn(<<[condition EXCEPT !.out = <<>>], [ifChildren EXCEPT !.out = <<>>],
            Lit("{% if "), Ok(condition.out), Lit(" %}"), Ok(ifChildren.out),
            Lit("{% endif %}")>>)

\* the include template whether or not the component has children
InlineComponentAlwaysInclude(n, opts, attributes) ==
  LET id == IF Has(n, "name") THEN Lit(inlineComponentId(n.name, opts)) ELSE Throw
  IN IF ~attributes.ok THEN attributes
     ELSE IF ~Has(n, "name") \/ ~Has(n, "children") THEN Then(attributes, Throw)
     ELSE Seqn(<<[attributes EXCEPT !.out = <<>>],
                 Lit("\n{{ include('"), id, Lit("', {"), Ok(attributes.out),
                 Lit("}, with_context = false) }}")>>)

\* the include or embed template, attributes being the joined attribute list
InlineComponentTemplate(n, opts, attributes) ==
  LET id == IF Has(n, "name") THEN Lit(inlineComponentId(n.name, opts)) ELSE Throw
  IN IF ~attributes.ok THEN attributes
     ELSE IF ~Has(n, "name") \/ ~Has(n, "children") THEN Then(attributes, Throw)
     ELSE IF Len(n.children) <= 0
     THEN Seqn(<<[attributes EXCEPT !.out = <<>>],
                 Lit("\n{{ include('"), id, Lit("', {"), Ok(attributes.out),
                 Lit("}, with_context = false) }}")>>)
     ELSE LET children == MapTwig(n, "children", opts, "")
          IN Seqn(<<[attributes EXCEPT !.out = <<>>], [children EXCEPT !.out = <<>>],
                    Lit("\n{% embed \""), id, Lit("\" with {"), Ok(attributes.out),
                    Lit("} only %}"), Lit("\n            "), Lit("{% block "),
                    Lit(Str(opts, "defaultSlotName")), Lit(" %}"),
                    Lit("\n            "), Ok(children.out),
                    Lit("\n            "), Lit("{% endblock %}"),
                    Lit("\n          "), Lit("{% endembed %}")>>)

TwigInlineComponent(n, opts) ==
  InlineComponentTemplate(n, opts, MapObj(n, "attributes", opts, ", "))

\* every context translated as the loop binding, the array pattern or not
TwigEachBlockContextBinding(n, opts) ==
  LET eachChildren == MapTwig(n, "children", opts, "")
  IN IF ~eachChildren.ok THEN eachChildren
     ELSE IF ~Has(n, "context") THEN Then(eachChildren, Throw)
     ELSE Seqn(<<[eachChildren EXCEPT !.out = <<>>], Lit("{% for "),
                 Twig(n, "context", opts), Lit(" in "), Twig(n, "expression", opts),
                 Lit(" %}"), Ok(eachChildren.out), Lit("{% endfor %}")>>)

TwigEachBlock(n, opts) ==
  LET eachChildren == MapTwig(n, "children", opts, "")
      body == <<Lit(" in "), Twig(n, "expression", opts), Lit(" %}"),
                Ok(eachChildren.out), Lit("{% endfor %}")>>
  IN IF ~eachChildren.ok THEN eachChildren
     ELSE IF ~Has(n, "context") THEN Then(eachChildren, Throw)
     ELSE IF Type(n.context) = "ArrayPattern"
     THEN Seqn(<<[eachChildren EXCEPT !.out = <<>>], Lit("{% for "),
                 Twig(n, "context", opts)>> \o body)
     ELSE Seqn(<<[eachChildren EXCEPT !.out = <<>>], Lit("{% for "),
                 Twig(n, "expression", opts), Lit("_item")>> \o body)

\* the console.warn of the Slot rule
SlotFallbackWarning(opts) ==
  [level |-> "warn", msg |-> "unnamed slot, using the default-slot-name",
   slot |-> Str(opts, "defaultSlotName")]

TwigSlot(n, opts) ==
  IF ~Has(n, "attributes") THEN Throw
  ELSE LET k == FindNameAttribute(n.attributes)
           nameAttribute == n.attributes[k]
           children == MapTwig(n, "children", opts, "")
       IN IF k = 0
          THEN Seqn(<<Logged(SlotFallbackWarning(opts)),
                      [children EXCEPT !.out = <<>>], Lit("{% block "),
                      Lit(Str(opts, "defaultSlotName")), Lit(" %}"),
                      Ok(children.out), Lit("{% endblock %}")>>)
          \* nameAttribute.value[0].data
          ELSE IF ~Has(nameAttribute, "value") \/ ~IsArr(nameAttribute.value)
                  \/ nameAttribute.value.arr = <<>>
          THEN Throw
          ELSE Seqn(<<[children EXCEPT !.out = <<>>], Lit("{% block "),
                      Lit(Str(nameAttribute.value.arr[1], "data")), Lit(" %}"),
                      Ok(children.out), Lit("{% endblock %}")>>)

TwigTemplateElement(n, opts) ==
  IF ~Has(n, "value") THEN Throw ELSE Lit(Str(n.value, "raw"))

\* one element of the offset-sorted list of a template literal
TwigTemplateLiteralPart(childNode, opts) ==
  IF IsNullish(childNode) THEN Throw
  ELSE IF Type(childNode) = "TemplateElement"
  THEN IF Has(childNode, "value") /\ Has(childNode.value, "raw")
       THEN Lit(childNode.value.raw) ELSE Throw
  ELSE IF Type(childNode) = "LogicalExpression" /\ Str(childNode, "operator") = "||"
  THEN Seqn(<<Lit("{{ "), Obj(childNode, "left", opts), Lit("|default("),
              Obj(childNode, "right", opts), Lit(") }}")>>)
  ELSE Seqn(<<Lit("{{ "), convertNodeToTwig(childNode, opts), Lit(" }}")>>)

\* the arrays at hand once the spread [...node.expressions, ...node.quasis]
\* has built `elements`: the two arrays of the node and the new one
spreadElements(n) ==
  [quasis |-> n.quasis, expressions |-> n.expressions,
   elements |-> n.expressions \o n.quasis]

\* no copy: the quasis are pushed onto node.expressions and that array is sorted
sortElementsOfNode(n) ==
  [spreadElements(n) EXCEPT !.expressions = SortByStart(n.expressions \o n.quasis),
                            !.elements = SortByStart(n.expressions \o n.quasis)]

\* .sort((a, b) => a.start - b.start) sorts the array it is called on, in
\* place: `elements`
sortElements(n) == [spreadElements(n) EXCEPT !.elements = SortByStart(@)]

\* the elements in declaration order, all quasis then all expressions
TemplateLiteralElementsUnsorted(n) == n.quasis \o n.expressions

\* [...node.expressions, ...node.quasis].sort((a, b) => a.start - b.start)
TemplateLiteralElements(n) == sortElements(n).elements

TwigTemplateLiteral(n, opts) ==
  IF Has(n, "expressions") /\ Len(n.expressions) > 0
  THEN IF ~Has(n, "quasis") THEN Throw
       ELSE LET elements == TemplateLiteralElements(n)
            IN JoinNonEmpty([i \in 1..Len(elements) |->
                               TwigTemplateLiteralPart(elements[i], opts)], "")
  ELSE MapTwig(n, "quasis", opts, "")

TwigUnaryExpression(n, opts) ==
  Seqn(<<Lit(IF Str(n, "operator") = "!" THEN "not " ELSE Str(n, "operator")),
         Twig(n, "argument", opts)>>)

\* the switch of convertNodeToTwig
TwigRule(n, opts) ==
  IF IsNullish(n) THEN Throw
  ELSE CASE Type(n) = "Attribute" -> TwigAttribute(n, opts)
    [] Type(n) = "AttributeShorthand" -> TwigAttributeShorthand(n, opts)
    [] Type(n) = "ArrayPattern" -> MapTwig(n, "elements", opts, ", ")
    [] Type(n) = "BinaryExpression" -> TwigBinaryExpression(n, opts)
    [] Type(n) = "CallExpression" -> TwigCallExpression(n, opts)
    [] Type(n) = "ConditionalExpression" -> TwigConditionalExpression(n, opts)
    [] Type(n) = "Fragment" -> TwigFragment(n, opts)
    [] Type(n) = "Literal" -> Lit(Str(n, "raw"))
    [] Type(n) = "LogicalExpression" -> TwigLogicalExpression(n, opts)
    [] Type(n) = "Element" -> TwigElement(n, opts)
    [] Type(n) = "Identifier" -> Lit(Str(n, "name"))
    [] Type(n) = "MemberExpression" -> TwigMemberExpression(n, opts)
    [] Type(n) = "MustacheTag" -> TwigMustacheTag(n, opts)
    [] Type(n) = "IfBlock" -> TwigIfBlock(n, opts)
    [] Type(n) = "InlineComponent" -> TwigInlineComponent(n, opts)
    [] Type(n) = "EachBlock" -> TwigEachBlock(n, opts)
    [] Type(n) = "RawMustacheTag" ->
         Seqn(<<Lit("{{ "), Twig(n, "expression", opts), Lit(" }}")>>)
    [] Type(n) = "Slot" -> TwigSlot(n, opts)
    [] Type(n) = "TemplateElement" -> TwigTemplateElement(n, opts)
    [] Type(n) = "TemplateLiteral" -> TwigTemplateLiteral(n, opts)
    [] Type(n) = "Text" -> Lit(Str(n, "data"))
    [] Type(n) = "UnaryExpression" -> TwigUnaryExpression(n, opts)
    [] OTHER -> Ok(<<>>)

ObjAttribute(n, opts) ==
  IF Has(n, "value") /\ n.value = JsTrue THEN Lit(Str(n, "name"))
  ELSE IF ~Has(n, "value") \/ ~IsArr(n.value) THEN Throw
  ELSE Seqn(<<Lit(Str(n, "name")), Lit(": "),
              JoinRes(ObjAll(n.value.arr, opts), " ")>>)

ObjBinaryExpression(n, opts) ==
  Seqn(<<Obj(n, "left", opts), Lit(" "), Lit(binaryOperator(Str(n, "operator"))),
         Lit(" "), Obj(n, "right", opts)>>)

ObjCallExpression(n, opts) ==
  Seqn(<<Obj(n, "callee", opts), Lit("("), MapObj(n, "arguments", opts, ", "),
         Lit(")")>>)

ObjConditionalExpression(n, opts) ==
  Seqn(<<Obj(n, "test", opts), Lit(" ? "), Obj(n, "consequent", opts),
         Lit(" : "), Obj(n, "alternate", opts)>>)

\* every argument of merge without braces, a Property too
ObjMergeArgumentBare(p, opts) ==
  IF IsNullish(p) THEN Throw ELSE convertNodeToObjectLiteral(p, opts)

\* `{${convertNodeToObjectLiteral(p)}}` for a Property, the bare call otherwise
ObjMergeArgument(p, opts) ==
  IF IsNullish(p) THEN Throw
  ELSE IF Type(p) = "Property"
  THEN Seqn(<<Lit("{"), convertNodeToObjectLiteral(p, opts), Lit("}")>>)
  ELSE convertNodeToObjectLiteral(p, opts)

ObjObjectExpression(n, opts) ==
  IF ~Has(n, "properties") THEN Throw
  ELSE IF \E i \in 1..Len(n.properties) : IsNullish(n.properties[i]) THEN Throw
  ELSE IF \E i \in 1..Len(n.properties) : Type(n.properties[i]) = "SpreadElement"
  THEN LET firstProperty == n.properties[1]
           init == IF Type(firstProperty) = "SpreadElement"
                   THEN convertNodeToObjectLiteral(firstProperty, opts)
                   ELSE Seqn(<<Lit("{"),
                               convertNodeToObjectLiteral(firstProperty, opts),
                               Lit("}")>>)
           rest == Tail(n.properties)
           mergedProperties ==
             JoinRes([i \in 1..Len(rest) |-> ObjMergeArgument(rest[i], opts)], ", ")
       IN Seqn(<<init, Lit("|merge("), mergedProperties, Lit(")")>>)
  ELSE Seqn(<<Lit("{"), MapObj(n, "properties", opts, ", "), Lit("}")>>)

\* the template-mode keywords used in value mode
ObjLogicalExpressionKeywords(n, opts) ==
  Seqn(<<Obj(n, "left", opts), Lit(" "),
         Lit(IF Str(n, "operator") = "&&" THEN "and" ELSE "or"), Lit(" "),
         Obj(n, "right", opts)>>)

\* a `&&` or `||` returns; any other operator falls through to the next case
ObjLogicalExpression(n, opts) ==
  IF Str(n, "operator") = "&&"
  THEN Seqn(<<Obj(n, "left", opts), Lit(" ? "), Obj(n, "right", opts)>>)
  ELSE IF Str(n, "operator") = "||"
  THEN Seqn(<<Obj(n, "left", opts), Lit("|default("), Obj(n, "right", opts),
              Lit(")")>>)
  ELSE ObjObjectExpression(n, opts)

ObjTemplateElement(n, opts) ==
  IF ~Has(n, "value") THEN Throw
  ELSE IF Has(n.value, "cooked") /\ n.value.cooked # ""
  THEN Seqn(<<Lit("'"), Lit(n.value.cooked), Lit("'")>>)
  ELSE Ok(<<>>)

ObjTemplateLiteralPart(childNode, opts) ==
  IF IsNullish(childNode) THEN Throw
  ELSE IF Type(childNode) = "TemplateElement"
  THEN IF Has(childNode, "value")
       THEN Seqn(<<Lit("'"), Lit(Str(childNode.value, "raw")), Lit("'")>>)
       ELSE Throw
  ELSE IF Type(childNode) = "LogicalExpression" /\ Str(childNode, "operator") = "||"
  THEN Seqn(<<Obj(childNode, "left", opts), Lit("|default("),
              Obj(childNode, "right", opts), Lit(")")>>)
  ELSE IF Type(childNode) = "LogicalExpression" /\ Str(childNode, "operator") = "&&"
  THEN Seqn(<<Obj(childNode, "left", opts), Lit(" ? "),
              Obj(childNode, "right", opts)>>)
  ELSE convertNodeToTwig(childNode, opts)

ObjTemplateLiteral(n, opts) ==
  IF Has(n, "expressions") /\ Len(n.expressions) > 0
  THEN IF ~Has(n, "quasis") THEN Throw
       ELSE LET elements == TemplateLiteralElements(n)
            IN JoinNotEmptyQuotes([i \in 1..Len(elements) |->
                                     ObjTemplateLiteralPart(elements[i], opts)],
                                  " ~ ")
  ELSE MapTwig(n, "quasis", opts, "")

\* the switch of convertNodeToObjectLiteral; a kind without a case leaves the
\* switch and reaches the `return ''` after the try
ObjRule(n, opts) ==
  IF IsNullish(n) THEN Throw
  ELSE CASE Type(n) = "ArrayExpression" ->
         Seqn(<<Lit("["), MapObj(n, "elements", opts, ", "), Lit("]")>>)
    [] Type(n) = "ArrayPattern" -> MapTwig(n, "elements", opts, ", ")
    [] Type(n) = "Attribute" -> ObjAttribute(n, opts)
    [] Type(n) = "AttributeShorthand" ->
         IF Has(n, "expression") THEN Lit(Str(n.expression, "name")) ELSE Throw
    [] Type(n) = "BinaryExpression" -> ObjBinaryExpression(n, opts)
    [] Type(n) = "CallExpression" -> ObjCallExpression(n, opts)
    [] Type(n) = "ConditionalExpression" -> ObjConditionalExpression(n, opts)
    [] Type(n) = "Identifier" -> Lit(Str(n, "name"))
    [] Type(n) = "Literal" -> Lit(Str(n, "raw"))
    [] Type(n) = "LogicalExpression" -> ObjLogicalExpression(n, opts)
    [] Type(n) = "ObjectExpression" -> ObjObjectExpression(n, opts)
    [] Type(n) = "MemberExpression" ->
         Seqn(<<Obj(n, "object", opts), Lit("."), Obj(n, "property", opts)>>)
    [] Type(n) = "MustacheTag" -> Obj(n, "expression", opts)
    [] Type(n) = "Property" ->
         Seqn(<<Obj(n, "key", opts), Lit(": "), Obj(n, "value", opts)>>)
    [] Type(n) = "RawMustacheTag" ->
         Seqn(<<Lit("{{ "), Twig(n, "expression", opts), Lit(" }}")>>)
    [] Type(n) = "SpreadElement" -> Obj(n, "argument", opts)
    [] Type(n) = "TemplateElement" -> ObjTemplateElement(n, opts)
    [] Type(n) = "TemplateLiteral" -> ObjTemplateLiteral(n, opts)
    [] Type(n) = "Text" -> Seqn(<<Lit("'"), Lit(Str(n, "data")), Lit("'")>>)
    [] OTHER -> Ok(<<>>)

\* a catch clause that logs and re-raises
CatchTwigRethrow(n, r) ==
  [out |-> <<>>,
   log |-> r.log \o <<[level |-> "error", msg |-> "Error converting node to Twig:"],
                      [level |-> "log", msg |-> "Element:", node |-> n]>>,
   ok |-> FALSE]

\* the catch clause of convertNodeToTwig, r being what the switch did before
\* it raised: two console entries, then the `return ''` after the try
CatchTwig(n, r) ==
  [out |-> <<>>,
   log |-> r.log \o <<[level |-> "error", msg |-> "Error converting node to Twig:"],
                      [level |-> "log", msg |-> "Element:", node |-> n]>>,
   ok |-> TRUE]

\* try { switch } catch, r being what the switch did
TryTwig(n, r) == IF r.ok THEN r ELSE CatchTwig(n, r)

convertNodeToTwig(n, opts) == TryTwig(n, TwigRule(n, opts))

\* the catch clause of convertNodeToObjectLiteral
CatchObjectLiteral(n, r) ==
  [out |-> <<>>,
   log |-> r.log \o <<[level |-> "error",
                       msg |-> "Error converting node to object literal:"],
                      [level |-> "log", msg |-> "Element:", node |-> n]>>,
   ok |-> TRUE]

TryObjectLiteral(n, r) == IF r.ok THEN r ELSE CatchObjectLiteral(n, r)

convertNodeToObjectLiteral(n, opts) == TryObjectLiteral(n, ObjRule(n, opts))

----------------------------------------------------------------------------
(* JavaScript data: the documents that lodash merge and yaml stringify see. *)
(* A value is [str |-> s], [num |-> n], [bool |-> b], [null |-> TRUE],       *)
(* [arr |-> <<values>>] or [map |-> <<pairs>>], a pair being <<key, value>>  *)
(* and the pairs standing in the insertion order of the object's keys.       *)

JStr(x) == [str |-> x]
JNum(x) == [num |-> x]
JBool(x) == [bool |-> x]
JNull == [null |-> TRUE]
JArr(xs) == [arr |-> xs]
JMap(pairs) == [map |-> pairs]
IsMap(v) == Has(v, "map")

\* typeof v
TypeOf(v) ==
  CASE Has(v, "bool") -> "boolean"
    [] Has(v, "num") -> "number"
    [] Has(v, "str") -> "string"
    [] IsNullish(v) -> "undefined"
    [] OTHER -> "object"

\* if (v): JavaScript truthiness
Truthy(v) ==
  CASE Has(v, "bool") -> v.bool
    [] Has(v, "num") -> v.num # 0
    [] Has(v, "str") -> v.str # ""
    [] Has(v, "null") -> FALSE
    [] IsNullish(v) -> FALSE
    [] OTHER -> TRUE

Keys(m) == [i \in 1..Len(m.map) |-> m.map[i][1]]
HasKey(m, k) == \E i \in 1..Len(m.map) : m.map[i][1] = k
\* m[k]
MapGet(m, k) ==
  IF IsMap(m) /\ HasKey(m, k)
  THEN m.map[CHOOSE i \in 1..Len(m.map) : m.map[i][1] = k][2]
  ELSE Undefined
\* every assignment adds an entry, the key present or not
MapSetAppends(m, k, v) == JMap(Append(m.map, <<k, v>>))

\* m[k] = v: an existing key keeps its place, a new key goes last
MapSet(m, k, v) ==
  IF HasKey(m, k)
  THEN JMap([i \in 1..Len(m.map) |-> IF m.map[i][1] = k THEN <<k, v>> ELSE m.map[i]])
  ELSE JMap(Append(m.map, <<k, v>>))

\* lodash merge(object, source): own keys of source are merged into object
\* recursively for plain objects and arrays (arrays index by index), any
\* other source value is assigned over the destination value
RECURSIVE mergeValue(_, _), mergeMapFrom(_, _, _), mergeArrays(_, _)

\* two arrays merged index by index, with the arrays' elements concatenated
\* instead
mergeArraysConcat(objArr, srcArr) == objArr \o srcArr

mergeArrays(objArr, srcArr) ==
  [i \in 1..(IF Len(objArr) > Len(srcArr) THEN Len(objArr) ELSE Len(srcArr)) |->
     IF i > Len(srcArr) THEN objArr[i]
     ELSE mergeValue(IF i <= Len(objArr) THEN objArr[i] ELSE Undefined, srcArr[i])]

mergeMapFrom(obj, src, i) ==
  IF i > Len(src.map) THEN obj
  ELSE mergeMapFrom(MapSet(obj, src.map[i][1],
                           mergeValue(MapGet(obj, src.map[i][1]), src.map[i][2])),
                    src, i + 1)

\* what baseMerge assigns to object[key] for the source value srcValue
mergeValue(objValue, srcValue) ==
  IF IsMap(srcValue)
  THEN mergeMapFrom(IF IsMap(objValue) THEN objValue ELSE JMap(<<>>), srcValue, 1)
  ELSE IF IsArr(srcValue)
  THEN JArr(mergeArrays(IF IsArr(objValue) THEN objValue.arr ELSE <<>>, srcValue.arr))
  ELSE srcValue

\* merge(source, object) in place of merge(object, source): inferred wins
mergeSwapped(object, source) ==
  IF IsMap(source) /\ IsMap(object) THEN mergeMapFrom(source, object, 1) ELSE object

merge(object, source) ==
  IF IsMap(source) THEN mergeMapFrom(object, source, 1) ELSE object

\* lib/componentYaml: the comparator handed to yaml's sortMapEntries
order ==
  <<"$schema", "name", "description", "group", "status", "props", "slots",
    "libraryOverrides", "thirdPartySettings">>
\* order.indexOf(key)
indexOf(key) ==
  IF key \in Range(order) THEN (CHOOSE i \in DOMAIN order : order[i] = key) - 1
  ELSE -1
sortComponentKeys(a, b) == indexOf(a[1]) - indexOf(b[1])

\* pairs.sort(sortComponentKeys): Array.prototype.sort is stable
RECURSIVE InsertPair(_, _)
InsertPair(sorted, x) ==
  IF sorted = <<>> THEN <<x>>
  ELSE IF sortComponentKeys(x, Head(sorted)) < 0 THEN <<x>> \o sorted
  ELSE <<Head(sorted)>> \o InsertPair(Tail(sorted), x)
RECURSIVE SortPairsFrom(_, _, _)
SortPairsFrom(xs, i, acc) ==
  IF i > Len(xs) THEN acc ELSE SortPairsFrom(xs, i + 1, InsertPair(acc, xs[i]))

\* stringify(yml, {sortMapEntries: sortComponentKeys}): the document as it is
\* written, every map's entries in sorted order
RECURSIVE stringifyYaml(_)
stringifyYaml(yml) ==
  IF IsMap(yml)
  THEN JMap(SortPairsFrom([i \in 1..Len(yml.map) |->
                            <<yml.map[i][1], stringifyYaml(yml.map[i][2])>>],
                         1, <<>>))
  ELSE IF IsArr(yml)
  THEN JArr([i \in 1..Len(yml.arr) |-> stringifyYaml(yml.arr[i])])
  ELSE yml

----------------------------------------------------------------------------
(* createComponentContext *)

\* strs.join(sep) on strings
RECURSIVE JoinStrings(_, _)
JoinStrings(strs, sep) ==
  IF strs = <<>> THEN ""
  ELSE IF Len(strs) = 1 THEN strs[1]
  ELSE strs[1] \o sep \o JoinStrings(Tail(strs), sep)

\* `[${init.elements.map(element => element.raw).join(', ')}]`; join renders
\* an undefined raw as the empty string
arrayDefaultCommaOnly(elements) ==
  "[" \o JoinStrings([i \in 1..Len(elements) |->
                        IF Has(elements[i], "raw") THEN elements[i].raw ELSE ""],
                     ",") \o "]"

arrayDefault(elements) ==
  "[" \o JoinStrings([i \in 1..Len(elements) |->
                        IF Has(elements[i], "raw") THEN elements[i].raw ELSE ""],
                     ", ") \o "]"

\* an initializer of no handled kind also gets a default: its source text
inferOtherRawDefault(init, stmt) ==
  [type |-> "string",
   default |-> IF Has(init, "name") THEN JStr(init.name) ELSE JStr(Type(init)),
   log |-> <<>>, ok |-> TRUE]

\* the branches that leave type 'string' and defaultValue undefined: no
\* initializer, an Identifier (logged), any other kind (logged twice)
inferOther(init, stmt) ==
  IF IsNullish(init) \/ ~Has(init, "type")
  THEN [type |-> "string", default |-> Undefined, log |-> <<>>, ok |-> TRUE]
  ELSE IF init.type = "Identifier"
  THEN [type |-> "string", default |-> Undefined,
        log |-> <<[level |-> "log", msg |-> "It;s an identifier:", node |-> stmt]>>,
        ok |-> TRUE]
  ELSE [type |-> "string", default |-> Undefined,
        log |-> <<[level |-> "log", msg |-> "Unhandled type:", node |-> stmt],
                  [level |-> "log", msg |-> init.type]>>,
        ok |-> TRUE]

\* the type and the default inferred from one initializer (init?.type ...);
\* default is Undefined when defaultValue stays undefined, ok is FALSE when
\* element.raw is read from a hole of the array
inferProp(init, stmt) ==
  IF Type(init) = "ArrayExpression"
  THEN IF ~Has(init, "elements")
          \/ \E i \in 1..Len(init.elements) : IsNullish(init.elements[i])
       THEN [type |-> "array", default |-> Undefined, log |-> <<>>, ok |-> FALSE]
       ELSE [type |-> "array", default |-> JStr(arrayDefault(init.elements)),
             log |-> <<>>, ok |-> TRUE]
  ELSE IF Type(init) = "Literal"
  THEN IF TypeOf(Get(init, "value")) \in {"boolean", "number", "string"}
       THEN [type |-> TypeOf(init.value), default |-> init.value,
             log |-> <<>>, ok |-> TRUE]
       ELSE [type |-> "string",
             default |-> IF Has(init, "raw") THEN JStr(init.raw) ELSE Undefined,
             log |-> <<>>, ok |-> TRUE]
  ELSE IF Type(init) = "ObjectExpression"
  THEN [type |-> "object", default |-> Undefined, log |-> <<>>, ok |-> TRUE]
  ELSE inferOther(init, stmt)

\* context.props[id] = {type, title: '', description: '', enum: ''}, then the
\* default when defaultValue is not undefined
propEntry(inferred) ==
  LET base == JMap(<< <<"type", JStr(inferred.type)>>, <<"title", JStr("")>>,
                      <<"description", JStr("")>>, <<"enum", JStr("")>> >>)
  IN IF IsNullish(inferred.default) THEN base
     ELSE MapSet(base, "default", inferred.default)

\* the callback of node.declaration.declarations.forEach, acc being
\* [props, log, ok] so far
propsOfDeclarator(acc, declaration, stmt) ==
  IF ~acc.ok THEN acc
  ELSE IF ~Has(declaration, "id") THEN [acc EXCEPT !.ok = FALSE]
  ELSE IF Type(declaration) = "VariableDeclarator"
          /\ Type(declaration.id) = "Identifier"
  THEN LET props == IF IsMap(acc.props) THEN acc.props ELSE JMap(<<>>)
           inferred == inferProp(Get(declaration, "init"), stmt)
       IN IF ~inferred.ok
          THEN [props |-> props, log |-> acc.log \o inferred.log, ok |-> FALSE]
          ELSE [props |-> MapSet(props, Str(declaration.id, "name"),
                                 propEntry(inferred)),
                log |-> acc.log \o inferred.log, ok |-> TRUE]
  ELSE acc

RECURSIVE propsOfDeclarators(_, _, _, _)
propsOfDeclarators(acc, decls, i, stmt) ==
  IF i > Len(decls) THEN acc
  ELSE propsOfDeclarators(propsOfDeclarator(acc, decls[i], stmt), decls, i + 1, stmt)

\* the first forEach over ast.instance?.content.body
RECURSIVE inferProps(_, _, _)
inferProps(acc, body, i) ==
  IF i > Len(body) \/ ~acc.ok THEN acc
  ELSE IF Type(body[i]) = "ExportNamedDeclaration"
  THEN IF IsNullish(Get(body[i], "declaration"))
          \/ ~Has(body[i].declaration, "declarations")
       THEN [acc EXCEPT !.ok = FALSE]
       ELSE inferProps(propsOfDeclarators(acc, body[i].declaration.declarations,
                                          1, body[i]),
                       body, i + 1)
  ELSE inferProps(acc, body, i + 1)

\* findSlots: acc is [slots, ok]; a slot entry is a string value or Undefined
RECURSIVE findSlots(_, _, _), findSlotsIn(_, _, _, _)
findSlots(acc, n, opts) ==
  IF ~acc.ok THEN acc
  ELSE IF IsNullish(n) THEN [acc EXCEPT !.ok = FALSE]
  ELSE LET here ==
             IF Type(n) # "Slot" THEN acc
             ELSE IF ~Has(n, "attributes") THEN [acc EXCEPT !.ok = FALSE]
             ELSE LET k == FindNameAttribute(n.attributes)
                      id == n.attributes[k]
                  IN IF k = 0
                     THEN [acc EXCEPT !.slots =
                             Append(@, IF Has(opts, "defaultSlotName")
                                       THEN JStr(opts.defaultSlotName)
                                       ELSE Undefined)]
                     ELSE IF ~Has(id, "value") \/ ~IsArr(id.value)
                             \/ id.value.arr = <<>>
                     THEN [acc EXCEPT !.ok = FALSE]
                     ELSE [acc EXCEPT !.slots =
                             Append(@, IF Has(id.value.arr[1], "data")
                                       THEN JStr(id.value.arr[1].data)
                                       ELSE Undefined)]
       IN IF Has(n, "children") THEN findSlotsIn(here, n.children, 1, opts)
          ELSE here
findSlotsIn(acc, children, i, opts) ==
  IF i > Len(children) THEN acc
  ELSE findSlotsIn(findSlots(acc, children[i], opts), children, i + 1, opts)

\* context.setStatements[name] = r, r being what convertNodeToObjectLiteral
\* returned; acc is [setStatements, log, ok]
setStatement(acc, name, r) ==
  [acc EXCEPT !.setStatements = MapSet(@, name, JStr(Flat(r.out))),
              !.log = @ \o r.log]

\* $: name = expression
labeledStatement(acc, n, opts) ==
  IF Type(n) = "LabeledStatement" /\ Type(Get(n, "body")) = "ExpressionStatement"
  THEN IF ~Has(n.body, "expression") THEN [acc EXCEPT !.ok = FALSE]
       ELSE IF Type(n.body.expression) = "AssignmentExpression"
               /\ Str(n.body.expression, "operator") = "="
       THEN IF ~Has(n.body.expression, "left") THEN [acc EXCEPT !.ok = FALSE]
            ELSE setStatement(acc, Str(n.body.expression.left, "name"),
                              Obj(n.body.expression, "right", opts))
       ELSE acc
  ELSE acc

\* let name = init (the first declarator only)
variableDeclaration(acc, n, opts) ==
  IF ~acc.ok \/ Type(n) # "VariableDeclaration" THEN acc
  ELSE IF ~Has(n, "declarations") \/ n.declarations = <<>>
          \/ ~Has(n.declarations[1], "id")
  THEN [acc EXCEPT !.ok = FALSE]
  ELSE setStatement(acc, Str(n.declarations[1].id, "name"),
                    Obj(n.declarations[1], "init", opts))

\* the callback of the second forEach over the body
setStatementsOfNode(acc, n, opts) ==
  variableDeclaration(labeledStatement(acc, n, opts), n, opts)

RECURSIVE inferSetStatements(_, _, _, _)
inferSetStatements(acc, body, i, opts) ==
  IF i > Len(body) \/ ~acc.ok THEN acc
  ELSE inferSetStatements(setStatementsOfNode(acc, body[i], opts), body, i + 1, opts)

\* path.basename(filePath, '.svelte') of the sampled paths
basename(filePath) ==
  CASE filePath = "components/button/button.svelte" -> "button"
    [] filePath = "components/card/card.svelte" -> "card"
    [] filePath = "components/broken/broken.svelte" -> "broken"
    [] filePath = "components/reset/reset.svelte" -> "reset"
    [] OTHER -> filePath

\* ast.instance?.content.body, the empty list when there is no script
bodyOf(ast) ==
  IF Has(ast, "instance") /\ ~IsNullish(ast.instance) THEN ast.instance.content.body
  ELSE <<>>

\* the context returned, p, sl and st being what the three walks left
contextOf(name, userDefinedComponent, p, sl, st) ==
  [context |-> [name |-> name,
                component |-> userDefinedComponent,
                components |-> JMap(<<>>),
                props |-> p.props,
                setStatements |-> st.setStatements,
                slots |-> sl.slots,
                styleSheets |-> JMap(<<>>)],
   log |-> st.log,
   ok |-> st.ok]

\* the walk for set statements, after the walks for props and slots
withSetStatements(ast, name, userDefinedComponent, opts, p, sl) ==
  contextOf(name, userDefinedComponent, p, sl,
            IF sl.ok
            THEN inferSetStatements([setStatements |-> JMap(<<>>), log |-> p.log,
                                     ok |-> TRUE], bodyOf(ast), 1, opts)
            ELSE [setStatements |-> JMap(<<>>), log |-> p.log, ok |-> FALSE])

\* findSlots(ast.html), after the walk for props
withSlots(ast, name, userDefinedComponent, opts, p) ==
  withSetStatements(ast, name, userDefinedComponent, opts, p,
                    IF p.ok
                    THEN findSlots([slots |-> <<>>, ok |-> TRUE], Get(ast, "html"), opts)
                    ELSE [slots |-> <<>>, ok |-> FALSE])

\* createComponentContext(ast, filePath, options), userDefinedComponent being
\* what loadComponentDef returned; ok = FALSE when it raises
createComponentContext(ast, filePath, userDefinedComponent, opts) ==
  withSlots(ast,
            IF Truthy(MapGet(userDefinedComponent, "name"))
            THEN MapGet(userDefinedComponent, "name")
            ELSE JStr(basename(filePath)),
            userDefinedComponent, opts,
            inferProps([props |-> JNull, log |-> <<>>, ok |-> TRUE], bodyOf(ast), 1))

----------------------------------------------------------------------------
(* convertNodeToComponentDef *)

SchemaUrl ==
  "https://git.drupalcode.org/project/drupal/-/raw/10.3.x/core/assets/schemas/v1/metadata.schema.json"

\* def.props.properties[key]: the type, then title, default, enum and
\* description, each only if it is truthy
propertyOf(entry) ==
  LET copy(acc, field) ==
        IF Truthy(MapGet(entry, field)) THEN MapSet(acc, field, MapGet(entry, field))
        ELSE acc
  IN copy(copy(copy(copy(JMap(<< <<"type", MapGet(entry, "type")>> >>),
                         "title"), "default"), "enum"), "description")

RECURSIVE slotsMapFrom(_, _, _)
slotsMapFrom(acc, slots, i) ==
  IF i > Len(slots) THEN acc
  ELSE slotsMapFrom(MapSet(acc, IF Has(slots[i], "str") THEN slots[i].str
                                ELSE "undefined",
                           JMap(<<>>)),
                    slots, i + 1)

\* def as it stands before the merge (lines 418-459)
inferredDef(context) ==
  LET base == JMap(<< <<"$schema", JStr(SchemaUrl)>>, <<"name", context.name>> >>)
      withProps ==
        IF Truthy(context.props)
        THEN MapSet(base, "props",
               JMap(<< <<"type", JStr("object")>>,
                       <<"properties",
                         JMap([i \in 1..Len(context.props.map) |->
                                 <<context.props.map[i][1],
                                   propertyOf(context.props.map[i][2])>>])>> >>))
        ELSE base
  IN IF Len(context.slots) > 0
     THEN MapSet(withProps, "slots", slotsMapFrom(JMap(<<>>), context.slots, 1))
     ELSE withProps

\* the object handed to stringifyYaml: def = merge(def, context.component)
mergedDef(context) == merge(inferredDef(context), context.component)

convertNodeToComponentDef(n, context) == stringifyYaml(mergedDef(context))

----------------------------------------------------------------------------
(* What the calls leave of their arguments *)

\* the fields of a node that hold a list of nodes, and those that hold a node
ListFields ==
  {"children", "attributes", "elements", "arguments", "properties", "quasis",
   "expressions"}
NodeFields ==
  {"expression", "left", "right", "test", "consequent", "alternate", "callee",
   "object", "property", "argument", "key", "context", "else"}

\* a template literal once its rule has run: its two arrays as the sort
\* leaves them
literalAfterSort(n) ==
  [n EXCEPT !.quasis = sortElements(n).quasis,
            !.expressions = sortElements(n).expressions]

\* a tree once a translator has returned from a call on it. The two sorts are
\* the only statements of the translators that write to an array or an
\* object; every template literal with an expression is taken as sorted,
\* also one the call did not reach.
RECURSIVE nodeAfterTranslation(_)
nodeAfterTranslation(n) ==
  IF /\ Type(n) = "TemplateLiteral"
     /\ Has(n, "quasis")
     /\ Has(n, "expressions")
     /\ Len(n.expressions) > 0
  THEN literalAfterSort(
         [n EXCEPT !.quasis = [i \in 1..Len(n.quasis) |-> nodeAfterTranslation(n.quasis[i])],
                   !.expressions = [i \in 1..Len(n.expressions) |->
                                      nodeAfterTranslation(n.expressions[i])]])
  ELSE [f \in DOMAIN n |->
          IF f \in ListFields
          THEN [i \in 1..Len(n[f]) |-> nodeAfterTranslation(n[f][i])]
          ELSE IF f \in NodeFields THEN nodeAfterTranslation(n[f])
          ELSE IF f = "value" /\ IsArr(n[f])
          THEN [arr |-> [i \in 1..Len(n[f].arr) |-> nodeAfterTranslation(n[f].arr[i])]]
          ELSE IF f = "value" /\ Has(n[f], "type") THEN nodeAfterTranslation(n[f])
          ELSE n[f]]

\* a top-level statement once the set-statement scan has passed: the
\* initializer it hands to convertNodeToObjectLiteral
statementAfterContext(st) ==
  IF /\ Type(st) = "LabeledStatement"
     /\ Type(Get(st, "body")) = "ExpressionStatement"
     /\ Type(Get(st.body, "expression")) = "AssignmentExpression"
     /\ Str(st.body.expression, "operator") = "="
     /\ Has(st.body.expression, "right")
  THEN [st EXCEPT !.body.expression.right = nodeAfterTranslation(@)]
  ELSE IF /\ Type(st) = "VariableDeclaration"
          /\ Has(st, "declarations")
          /\ st.declarations # <<>>
          /\ Has(st.declarations[1], "init")
  THEN [st EXCEPT !.declarations[1].init = nodeAfterTranslation(@)]
  ELSE st

\* the AST once createComponentContext has returned: the prop and the slot
\* scans only read it, the push of findSlots is on context.slots
astAfterContext(ast) ==
  IF Has(ast, "instance")
  THEN [ast EXCEPT !.instance.content.body =
                     [i \in 1..Len(@) |-> statementAfterContext(@[i])]]
  ELSE ast

\* a value of the context that def holds too once the loop has copied it: an
\* array or a map is copied by reference, and merge then writes the
\* override's value at that place into it; a string, number or boolean is
\* copied by value
sharedAfterMerge(v, srcValue) ==
  IF (IsArr(v) \/ IsMap(v)) /\ (IsArr(srcValue) \/ IsMap(srcValue))
  THEN mergeValue(v, srcValue) ELSE v

\* context.props[key] once merge(def, context.component) has run
propAfterDef(entry, srcProperty) ==
  JMap([j \in 1..Len(entry.map) |->
          <<entry.map[j][1],
            IF /\ entry.map[j][1] \in {"title", "default", "enum", "description"}
               /\ Truthy(entry.map[j][2])
            THEN sharedAfterMerge(entry.map[j][2], MapGet(srcProperty, entry.map[j][1]))
            ELSE entry.map[j][2]>>])

\* the context once convertNodeToComponentDef has returned: slots is read by
\* forEach, component is the source of merge, which writes to its first
\* argument only
contextAfterDef(context) ==
  IF Truthy(context.props)
  THEN [context EXCEPT
          !.props = JMap([i \in 1..Len(@.map) |->
                            <<@.map[i][1],
                              propAfterDef(@.map[i][2],
                                MapGet(MapGet(MapGet(context.component, "props"),
                                              "properties"),
                                       @.map[i][1]))>>])]
  ELSE context

----------------------------------------------------------------------------
(* Inputs of the translators: AST nodes as the svelte parser shapes them *)

MaxChildren == 2

SeqsUpTo(S, n) == UNION {[1..k -> S] : k \in 0..n}

Text(d) == [type |-> "Text", data |-> d]
Identifier(nm) == [type |-> "Identifier", name |-> nm]
IdentifierAt(nm, st) == [type |-> "Identifier", name |-> nm, start |-> st]
Literal(raw, v) == [type |-> "Literal", raw |-> raw, value |-> v]
MustacheTag(e) == [type |-> "MustacheTag", expression |-> e]
Attribute(nm, vs) == [type |-> "Attribute", name |-> nm, value |-> [arr |-> vs]]
BooleanAttribute(nm) == [type |-> "Attribute", name |-> nm, value |-> JsTrue]
Element(nm, as, cs) ==
  [type |-> "Element", name |-> nm, attributes |-> as, children |-> cs]
Fragment(cs) == [type |-> "Fragment", children |-> cs]
IfBlock(e, cs) == [type |-> "IfBlock", expression |-> e, children |-> cs]
EachBlock(ctx, e, cs) ==
  [type |-> "EachBlock", context |-> ctx, expression |-> e, children |-> cs]
Slot(as, cs) == [type |-> "Slot", attributes |-> as, children |-> cs]
InlineComponent(nm, as, cs) ==
  [type |-> "InlineComponent", name |-> nm, attributes |-> as, children |-> cs]
TemplateElement(raw, st) ==
  [type |-> "TemplateElement", value |-> [raw |-> raw, cooked |-> raw], start |-> st]
TemplateLiteral(qs, es) ==
  [type |-> "TemplateLiteral", quasis |-> qs, expressions |-> es]
LogicalExpressionAt(op, l, r, st) ==
  [type |-> "LogicalExpression", operator |-> op, left |-> l, right |-> r,
   start |-> st]
ArrayPattern(es) == [type |-> "ArrayPattern", elements |-> es]
ArrayExpression(es) == [type |-> "ArrayExpression", elements |-> es]
\* a kind neither translator has a case for
Comment == [type |-> "Comment", data |-> "note"]

\* nodes whose own dispatch rule raises
ValuelessNameSlot == Slot(<<BooleanAttribute("name")>>, <<Text("s")>>)
NoExpressionTag == [type |-> "MustacheTag"]
NoChildrenElement == [type |-> "Element", name |-> "p", attributes |-> <<>>]

NamedSlot(nm, cs) == Slot(<<Attribute("name", <<Text(nm)>>)>>, cs)

\* the children the sampled markup nodes are built from
Kids ==
  {Text("a"), MustacheTag(Identifier("x")), Comment,
   Slot(<<>>, <<>>), NamedSlot("header", <<Text("h")>>),
   ValuelessNameSlot, NoExpressionTag, NoChildrenElement}

MarkupSamples ==
  {Fragment(cs) : cs \in SeqsUpTo(Kids, MaxChildren)}
  \cup {Element("div", <<Attribute("class", <<Text("c")>>)>>, cs) :
          cs \in SeqsUpTo(Kids, MaxChildren)}
  \cup {Slot(<<>>, cs) : cs \in SeqsUpTo(Kids, 1)}
  \cup {NamedSlot("header", cs) : cs \in SeqsUpTo(Kids, 1)}
  \cup {Slot(<<Attribute("class", <<Text("c")>>),
               Attribute("name", <<Text("footer")>>)>>, <<Text("f")>>)}

\* value-mode inputs: array literals, with a hole and a malformed element
ValueKids ==
  {Literal("1", [num |-> 1]), Identifier("x"), Comment, Undefined,
   [type |-> "ObjectExpression"]}
ValueSamples == {ArrayExpression(es) : es \in SeqsUpTo(ValueKids, MaxChildren)}

\* template literals `x=${e}` and `a${x}b${y || z}c`, the quasis and the
\* expressions arrays taken in every order
Orderings(xs) ==
  {p \in [1..Len(xs) -> Range(xs)] : \A i, j \in 1..Len(xs) : i # j => p[i] # p[j]}
OneExprQuasis == <<TemplateElement("x=", 1), TemplateElement("", 7)>>
OneExprExpressions == <<IdentifierAt("e", 5)>>
TwoExprQuasis ==
  <<TemplateElement("a", 1), TemplateElement("b", 6), TemplateElement("c", 16)>>
TwoExprExpressions ==
  <<IdentifierAt("x", 4),
    LogicalExpressionAt("||", Identifier("y"), Identifier("z"), 9)>>
TemplateLiteralSamples ==
  {TemplateLiteral(qs, es) :
     qs \in Orderings(OneExprQuasis), es \in Orderings(OneExprExpressions)}
  \cup {TemplateLiteral(qs, es) :
          qs \in Orderings(TwoExprQuasis), es \in Orderings(TwoExprExpressions)}
  \cup {TemplateLiteral(<<TemplateElement("plain", 1)>>, <<>>)}
TemplateSamples ==
  TemplateLiteralSamples \cup {MustacheTag(t) : t \in TemplateLiteralSamples}

BinaryExpression(op, l, r) ==
  [type |-> "BinaryExpression", operator |-> op, left |-> l, right |-> r]
LogicalExpression(op, l, r) ==
  [type |-> "LogicalExpression", operator |-> op, left |-> l, right |-> r]
ObjectPattern == [type |-> "ObjectPattern", properties |-> <<>>]

\* <My-Widget title="t" open>...</My-Widget> and the like
ComponentKids == {Text("a"), NoExpressionTag, NamedSlot("header", <<Text("h")>>)}
ComponentSamples ==
  {InlineComponent(nm, as, cs) :
     nm \in {"My-Widget", "Card", "ui.Tab_2"},
     as \in {<<>>, <<Attribute("title", <<Text("t")>>), BooleanAttribute("open")>>},
     cs \in SeqsUpTo(ComponentKids, MaxChildren)}

\* {#each items as [a, b]}, {#each items as x}, {#each items as {k}}, and an
\* each block without context
EachSamples ==
  {EachBlock(ctx, Identifier("items"), cs) :
     ctx \in {ArrayPattern(<<Identifier("a"), Identifier("b")>>), Identifier("x"),
              ObjectPattern},
     cs \in SeqsUpTo({Text("a"), MustacheTag(Identifier("a"))}, MaxChildren)}
  \cup {[type |-> "EachBlock", expression |-> Identifier("items"),
         children |-> <<Text("a")>>]}

\* elements of every self-closing name and of two other names
ElementSamples ==
  {Element(nm, as, cs) :
     nm \in selfClosingTags \cup {"div", "span"},
     as \in {<<>>, <<Attribute("class", <<Text("c")>>), BooleanAttribute("hidden")>>},
     cs \in {<<>>, <<Text("a"), MustacheTag(Identifier("x"))>>}}

Operands ==
  {Identifier("a"), Literal("1", JNum(1)),
   LogicalExpression("&&", Identifier("b"), Identifier("c"))}
ExpressionSamples ==
  {BinaryExpression(op, l, r) :
     op \in {"===", "==", "!==", "!=", "<", ">=", "+", "%"},
     l \in {Identifier("a")}, r \in {Identifier("b"), Literal("1", JNum(1))}}
  \cup {LogicalExpression(op, l, r) :
          op \in {"||", "&&", "??"}, l \in Operands, r \in Operands}

\* control blocks inside control blocks, some of them faulting
BlockKids ==
  {Text("a"),
   IfBlock(Identifier("d"), <<Slot(<<>>, <<Text("s")>>)>>),
   EachBlock(Identifier("x"), Identifier("items"),
             <<IfBlock(Identifier("e"), <<Text("t")>>)>>),
   InlineComponent("Card", <<>>, <<NamedSlot("header", <<>>)>>),
   ValuelessNameSlot,
   [type |-> "IfBlock", expression |-> Identifier("f")]}
NestedSamples ==
  {IfBlock(Identifier("c"), cs) : cs \in SeqsUpTo(BlockKids, MaxChildren)}
  \cup {[type |-> "IfBlock", children |-> <<Text("a")>>]}

\* object literals {a: 1, ...rest, a: 2, ...props} and the like
Property(k, v) == [type |-> "Property", key |-> Identifier(k), value |-> v]
SpreadElement(a) == [type |-> "SpreadElement", argument |-> a]
ObjectExpression(ps) == [type |-> "ObjectExpression", properties |-> ps]
Entries ==
  {Property("a", Literal("1", [num |-> 1])), Property("a", Identifier("x")),
   SpreadElement(Identifier("rest")), SpreadElement(Identifier("props"))}
ObjectSamples == {ObjectExpression(ps) : ps \in SeqsUpTo(Entries, MaxChildren + 1)}

\* template literals met in value mode: `n-${a && b}`, `pre-${`in${x}`}`,
\* `${a ?? b}!` and `${x}${-y}`
ValueTemplateSamples ==
  {TemplateLiteral(<<TemplateElement("n-", 1), TemplateElement("", 12)>>,
                   <<LogicalExpressionAt("&&", Identifier("a"), Identifier("b"), 5)>>),
   TemplateLiteral(<<TemplateElement("pre-", 1), TemplateElement("", 16)>>,
                   <<TemplateLiteral(<<TemplateElement("in", 8), TemplateElement("", 14)>>,
                                     <<IdentifierAt("x", 12)>>) @@ [start |-> 7]>>),
   TemplateLiteral(<<TemplateElement("", 1), TemplateElement("!", 10)>>,
                   <<LogicalExpressionAt("??", Identifier("a"), Identifier("b"), 3)>>),
   TemplateLiteral(<<TemplateElement("", 1), TemplateElement("", 5),
                     TemplateElement("", 10)>>,
                   <<IdentifierAt("x", 3),
                     [type |-> "UnaryExpression", operator |-> "-",
                      argument |-> Identifier("y"), start |-> 7]>>)}

Samples ==
  MarkupSamples \cup ValueSamples \cup TemplateSamples \cup ComponentSamples
    \cup EachSamples \cup ElementSamples \cup ExpressionSamples \cup NestedSamples
    \cup ObjectSamples \cup ValueTemplateSamples

OptionsSamples ==
  {[theme |-> "mytheme", defaultSlotName |-> d] : d \in {"content", "main"}}

NoResult == [out |-> <<>>, log |-> <<>>, ok |-> TRUE]

----------------------------------------------------------------------------
(* Applying the translators to one node *)

\* processFiles is not running
BatchIdle ==
  /\ files = <<>>
  /\ phase = "idle"
  /\ idx = 0
  /\ done = {}
  /\ writes = <<>>
  /\ pending = <<>>
  /\ console = <<>>

\* no recursion is being followed
WalkIdle ==
  /\ stack = <<>>
  /\ deepest = 0

NoFile == [nofile |-> TRUE]
NoContext == [context |-> Undefined, log |-> <<>>, ok |-> TRUE]

\* nothing is being built by the context builder
ContextIdle ==
  /\ astIn = Undefined
  /\ pathIn = ""
  /\ componentYml = NoFile
  /\ contextOut = NoContext
  /\ defInferred = Undefined
  /\ defMerged = Undefined
  /\ componentDef = Undefined
  /\ step = "idle"

TranslateInit ==
  /\ options \in OptionsSamples
  /\ node \in Samples
  /\ mode = "idle"
  /\ res = NoResult
  /\ ContextIdle
  /\ BatchIdle
  /\ WalkIdle

TranslateTwig ==
  /\ mode = "idle"
  /\ mode' = "twig"
  /\ res' = convertNodeToTwig(node, options)
  /\ UNCHANGED <<options, node>>
  /\ UNCHANGED cvars
  /\ UNCHANGED bvars
  /\ UNCHANGED wvars

TranslateObjectLiteral ==
  /\ mode = "idle"
  /\ mode' = "object"
  /\ res' = convertNodeToObjectLiteral(node, options)
  /\ UNCHANGED <<options, node>>
  /\ UNCHANGED cvars
  /\ UNCHANGED bvars
  /\ UNCHANGED wvars

TranslateNext == TranslateTwig \/ TranslateObjectLiteral

SpecTranslate == TranslateInit /\ [][TranslateNext]_vars

----------------------------------------------------------------------------
(* Fault isolation at the node boundary *)

RuleOf(tr, n) == IF tr = "twig" THEN TwigRule(n, options) ELSE ObjRule(n, options)
ConvOf(tr, n) ==
  IF tr = "twig" THEN convertNodeToTwig(n, options)
  ELSE convertNodeToObjectLiteral(n, options)

\* the list fields a rule maps a translator over, with that translator
ChildCalls(n, tr) ==
  IF tr = "twig"
  THEN CASE Type(n) \in {"Fragment", "IfBlock", "EachBlock", "Slot"} ->
              {<<"children", "twig">>}
         [] Type(n) = "Element" -> {<<"attributes", "twig">>, <<"children", "twig">>}
         [] Type(n) = "InlineComponent" ->
              {<<"attributes", "object">>, <<"children", "twig">>}
         [] Type(n) = "ArrayPattern" -> {<<"elements", "twig">>}
         [] OTHER -> {}
  ELSE CASE Type(n) = "ArrayExpression" -> {<<"elements", "object">>}
         [] Type(n) = "ArrayPattern" -> {<<"elements", "twig">>}
         [] OTHER -> {}

\* C1: a fault raised by the dispatch rule of a node is caught by the call for
\* that node: the call returns the empty text, logs the error and the node,
\* raises nothing, and the enclosing output is what it would be had the
\* faulting child been a node that translates to the empty text.
C1_FaultIsolated ==
  mode # "idle" =>
    /\ res.ok
    /\ ~RuleOf(mode, node).ok =>
         /\ res.out = <<>>
         /\ Len(res.log) >= 2
         /\ res.log[Len(res.log) - 1].level = "error"
         /\ res.log[Len(res.log)] =
              [level |-> "log", msg |-> "Element:", node |-> node]
    /\ \A fc \in ChildCalls(node, mode) :
         Has(node, fc[1]) =>
           \A i \in 1..Len(node[fc[1]]) :
             ~RuleOf(fc[2], node[fc[1]][i]).ok =>
               res.out = ConvOf(mode, [node EXCEPT ![fc[1]][i] = Comment]).out

\* an element whose first child faults and whose second child is rendered
C1_Witness ==
  /\ mode = "twig"
  /\ Type(node) = "Element"
  /\ Has(node, "children") /\ Len(node.children) = 2
  /\ ~TwigRule(node.children[1], options).ok
  /\ convertNodeToTwig(node.children[2], options).out # <<>>
  /\ res.out = <<"<", "div", " ", "class", "=\"", "c", "\"", ">">>
                 \o convertNodeToTwig(node.children[2], options).out
                 \o <<"</", "div", ">">>

----------------------------------------------------------------------------
(* Template literals in template mode *)

\* the template literal a node is, or wraps as the expression of a mustache tag
LiteralOf(n) ==
  IF Type(n) = "MustacheTag" /\ Has(n, "expression") THEN n.expression ELSE n
PartsOf(t) == Range(t.quasis) \cup Range(t.expressions)
\* the part of t that has exactly k - 1 parts at smaller offsets
PartAtRank(t, k) ==
  CHOOSE e \in PartsOf(t) :
    Cardinality({f \in PartsOf(t) : f.start < e.start}) = k - 1
\* what one part contributes: its raw text, or its interpolation
PieceOf(e) ==
  IF Type(e) = "TemplateElement" THEN Tok(e.value.raw)
  ELSE IF Type(e) = "LogicalExpression" /\ e.operator = "||"
  THEN <<"{{ ">> \o convertNodeToObjectLiteral(e.left, options).out
         \o <<"|default(">> \o convertNodeToObjectLiteral(e.right, options).out
         \o <<") }}">>
  ELSE <<"{{ ">> \o convertNodeToTwig(e, options).out \o <<" }}">>
RECURSIVE PiecesFrom(_, _)
PiecesFrom(t, k) ==
  IF k > Cardinality(PartsOf(t)) THEN <<>>
  ELSE PieceOf(PartAtRank(t, k)) \o PiecesFrom(t, k + 1)

\* C3: in template mode a template literal with at least one expression is
\* rendered as its quasis and expressions interleaved in ascending order of
\* source offset, whatever the order of the two arrays; quasis "x=" and ""
\* around one expression e give `x=` immediately followed by `{{ e }}`.
C3_InterleavedByOffset ==
  (mode = "twig" /\ Type(LiteralOf(node)) = "TemplateLiteral"
                 /\ Len(LiteralOf(node).expressions) > 0) =>
    /\ res.out = PiecesFrom(LiteralOf(node), 1)
    /\ (Range(LiteralOf(node).quasis) = Range(OneExprQuasis)
        /\ LiteralOf(node).expressions = OneExprExpressions)
         => res.out = <<"x=", "{{ ", "e", " }}">>

\* the quasis array in reverse source order, still rendered by offset
C3_Witness ==
  /\ mode = "twig"
  /\ node = TemplateLiteral(<<TemplateElement("", 7), TemplateElement("x=", 1)>>,
                            <<IdentifierAt("e", 5)>>)
  /\ res.out = <<"x=", "{{ ", "e", " }}">>

----------------------------------------------------------------------------
(* Slots in template mode *)

\* the attribute called `name` of a slot, if it has one
HasNameAttribute(n) ==
  \E i \in 1..Len(n.attributes) : Str(n.attributes[i], "name") = "name"
NameAttributeOf(n) ==
  n.attributes[CHOOSE i \in 1..Len(n.attributes) :
                 /\ Str(n.attributes[i], "name") = "name"
                 /\ \A j \in 1..(i - 1) : Str(n.attributes[j], "name") # "name"]
\* the name attribute carries a value list, as the parser gives for name="..."
NameIsValued(n) ==
  /\ Has(NameAttributeOf(n), "value")
  /\ IsArr(NameAttributeOf(n).value)
  /\ NameAttributeOf(n).value.arr # <<>>
ChildrenOf(n) == TwigAll(n.children, options)
BlockAround(id, n) ==
  <<"{% block ", id, " %}">> \o JoinToks(Outs(ChildrenOf(n)), "")
    \o <<"{% endblock %}">>

----------------------------------------------------------------------------
(* Inputs of the context builder and of the metadata serializer *)

MaxStatements == 2

ExportLet(nm, init) ==
  [type |-> "ExportNamedDeclaration",
   declaration |->
     [type |-> "VariableDeclaration",
      declarations |-> <<[type |-> "VariableDeclarator", id |-> Identifier(nm),
                          init |-> init]>>]]
CallExpression(callee, args) ==
  [type |-> "CallExpression", callee |-> callee, arguments |-> args]

\* export let count = 0; label = "Hi"; flag = false; open = true; empty = '';
\* items = [1, 2]; mixed = [a, 1]; config = {}; target = null;
\* other = fallback; made = make(); tpl = `t`; bare;
ExportSamples ==
  {ExportLet("count", Literal("0", JNum(0))),
   ExportLet("label", Literal("\"Hi\"", JStr("Hi"))),
   ExportLet("flag", Literal("false", JBool(FALSE))),
   ExportLet("open", Literal("true", JBool(TRUE))),
   ExportLet("empty", Literal("''", JStr(""))),
   ExportLet("items", ArrayExpression(<<Literal("1", JNum(1)), Literal("2", JNum(2))>>)),
   ExportLet("mixed", ArrayExpression(<<Identifier("a"), Literal("1", JNum(1))>>)),
   ExportLet("config", [type |-> "ObjectExpression", properties |-> <<>>]),
   ExportLet("target", Literal("null", JNull)),
   ExportLet("other", Identifier("fallback")),
   ExportLet("made", CallExpression(Identifier("make"), <<>>)),
   ExportLet("tpl", TemplateLiteral(<<TemplateElement("t", 1)>>, <<>>)),
   ExportLet("bare", Undefined)}

\* let total = 1;  $: doubled = count;  export function reset() {}
OtherStatements ==
  {[type |-> "VariableDeclaration",
    declarations |-> <<[type |-> "VariableDeclarator", id |-> Identifier("total"),
                        init |-> Literal("1", JNum(1))]>>],
   [type |-> "LabeledStatement",
    body |-> [type |-> "ExpressionStatement",
              expression |-> [type |-> "AssignmentExpression", operator |-> "=",
                              left |-> Identifier("doubled"),
                              right |-> Identifier("count")]]],
   [type |-> "ExportNamedDeclaration",
    declaration |-> [type |-> "FunctionDeclaration", id |-> Identifier("reset")]]}

ScriptStatements == ExportSamples \cup OtherStatements

\* a script declares a name once: the statements of a body are distinct
BodySamples ==
  {b \in SeqsUpTo(ScriptStatements, MaxStatements) :
     \A i, j \in 1..Len(b) : i # j => b[i] # b[j]}

HtmlSamples ==
  {Fragment(<<Text("a")>>),
   Fragment(<<Slot(<<>>, <<>>), NamedSlot("header", <<Text("h")>>)>>)}

AstSamples ==
  {[instance |-> [content |-> [body |-> b]], html |-> h] :
     b \in BodySamples, h \in HtmlSamples}

\* component.yml documents
YmlSamples ==
  {NoFile,
   JMap(<< <<"name", JStr("custom")>>, <<"description", JStr("A component")>> >>),
   JMap(<< <<"props",
             JMap(<< <<"properties",
                       JMap(<< <<"count",
                                 JMap(<< <<"default", JNum(5)>>,
                                         <<"title", JStr("Count")>> >>)>> >>)>> >>)>> >>),
   JMap(<< <<"props",
             JMap(<< <<"properties",
                       JMap(<< <<"items",
                                 JMap(<< <<"default", JArr(<<JNum(1), JNum(2)>>)>>,
                                         <<"enum", JArr(<<JStr("a")>>)>> >>)>>,
                               <<"label", JMap(<< <<"type", JNull>> >>)>> >>)>> >>)>> >>),
   JMap(<< <<"replaces", JStr("core:button")>>,
           <<"slots", JMap(<< <<"header", JMap(<< <<"title", JStr("Header")>> >>)>> >>)>>,
           <<"status", JStr("stable")>> >>),
   JMap(<< <<"thirdPartySettings", JMap(<<>>)>>,
           <<"libraryOverrides", JMap(<< <<"dependencies", JArr(<<JStr("core/once")>>)>> >>)>>,
           <<"group", JStr("Forms")>>,
           <<"name", JMap(<< <<"label", JStr("odd")>> >>)>> >>)}

\* loadComponentDef: {} unless the sidecar file exists
loadComponentDef(yml) == IF yml = NoFile THEN JMap(<<>>) ELSE yml

----------------------------------------------------------------------------
(* Building the context and the metadata document of one component *)

ContextInit ==
  /\ options \in OptionsSamples
  /\ node = Undefined
  /\ mode = "idle"
  /\ res = NoResult
  /\ astIn \in AstSamples
  /\ pathIn = "components/button/button.svelte"
  /\ componentYml \in YmlSamples
  /\ contextOut = NoContext
  /\ defInferred = Undefined
  /\ defMerged = Undefined
  /\ componentDef = Undefined
  /\ step = "parsed"
  /\ BatchIdle
  /\ WalkIdle

CreateComponentContext ==
  /\ step = "parsed"
  /\ contextOut' = createComponentContext(astIn, pathIn,
                                          loadComponentDef(componentYml), options)
  /\ step' = IF contextOut'.ok THEN "context" ELSE "raised"
  /\ astIn' = astAfterContext(astIn)
  /\ UNCHANGED <<pathIn, componentYml, defInferred, defMerged, componentDef>>
  /\ UNCHANGED tvars
  /\ UNCHANGED bvars
  /\ UNCHANGED wvars

ConvertNodeToComponentDef ==
  /\ step = "context"
  /\ defInferred' = inferredDef(contextOut.context)
  /\ defMerged' = mergedDef(contextOut.context)
  /\ componentDef' = convertNodeToComponentDef(astIn, contextOut.context)
  /\ step' = "def"
  /\ contextOut' = [contextOut EXCEPT !.context = contextAfterDef(@)]
  /\ UNCHANGED <<astIn, pathIn, componentYml>>
  /\ UNCHANGED tvars
  /\ UNCHANGED bvars
  /\ UNCHANGED wvars

ContextNext == CreateComponentContext \/ ConvertNodeToComponentDef

SpecContext == ContextInit /\ [][ContextNext]_vars

----------------------------------------------------------------------------
(* One file through processFile: context, metadata, template body *)

\* `${e}` written after x= in the source, the quasis array in reverse order
UnsortedLiteral ==
  TemplateLiteral(<<TemplateElement("", 7), TemplateElement("x=", 1)>>,
                  <<IdentifierAt("e", 5)>>)

\* export let count = 0;  export let items = [1, 2];
\* let label = `x=${e}`;  $: total = `x=${e}`;
InputStatements ==
  {ExportLet("count", Literal("0", JNum(0))),
   ExportLet("items", ArrayExpression(<<Literal("1", JNum(1)), Literal("2", JNum(2))>>)),
   [type |-> "VariableDeclaration",
    declarations |-> <<[type |-> "VariableDeclarator", id |-> Identifier("label"),
                        init |-> UnsortedLiteral]>>],
   [type |-> "LabeledStatement",
    body |-> [type |-> "ExpressionStatement",
              expression |-> [type |-> "AssignmentExpression", operator |-> "=",
                              left |-> Identifier("total"),
                              right |-> UnsortedLiteral]]]}

\* {`x=${e}`}<slot name="header"/> and <p title={`x=${e}`}><slot/></p>
InputHtmls ==
  HtmlSamples
    \cup {Fragment(<<MustacheTag(UnsortedLiteral), NamedSlot("header", <<>>)>>),
          Fragment(<<Element("p", <<Attribute("title", <<MustacheTag(UnsortedLiteral)>>)>>,
                             <<Slot(<<>>, <<>>)>>)>>)}

InputsInit ==
  /\ options \in OptionsSamples
  /\ node = Undefined
  /\ mode = "idle"
  /\ res = NoResult
  /\ astIn \in {[instance |-> [content |-> [body |-> b]], html |-> h] :
                  b \in SeqsUpTo(InputStatements, MaxStatements), h \in InputHtmls}
  /\ pathIn = "components/button/button.svelte"
  /\ componentYml \in YmlSamples
  /\ contextOut = NoContext
  /\ defInferred = Undefined
  /\ defMerged = Undefined
  /\ componentDef = Undefined
  /\ step = "parsed"
  /\ BatchIdle
  /\ WalkIdle

\* const templateBody = convertNodeToTwig(ast.html, options)
TranslateBody ==
  /\ step = "def"
  /\ res' = convertNodeToTwig(Get(astIn, "html"), options)
  /\ astIn' = [astIn EXCEPT !.html = nodeAfterTranslation(@)]
  /\ step' = "template"
  /\ UNCHANGED <<options, node, mode>>
  /\ UNCHANGED <<pathIn, componentYml, contextOut, defInferred, defMerged, componentDef>>
  /\ UNCHANGED bvars
  /\ UNCHANGED wvars

InputsNext == CreateComponentContext \/ ConvertNodeToComponentDef \/ TranslateBody

SpecInputs == InputsInit /\ [][InputsNext]_vars

----------------------------------------------------------------------------
(* Properties of the metadata document *)

userOverride == loadComponentDef(componentYml)
Recognized(k) == k \in Range(order)

\* C4: in the document stringifyYaml writes, the recognized top-level keys
\* stand in the order $schema, name, description, group, status, props,
\* slots, libraryOverrides, thirdPartySettings, and every unrecognized
\* top-level key stands after all recognized keys.
C4_KeyPrecedence ==
  step = "def" =>
    LET ks == Keys(componentDef)
    IN \A i, j \in 1..Len(ks) :
         i < j =>
           /\ (Recognized(ks[i]) /\ Recognized(ks[j])) => indexOf(ks[i]) < indexOf(ks[j])
           /\ ~(~Recognized(ks[i]) /\ Recognized(ks[j]))

\* m holds the value of o wherever d and o both have a key: maps are
\* compared key by key, anything else (scalar, null, array) as a whole
RECURSIVE OverrideWins(_, _, _)
OverrideWins(m, d, o) ==
  \A i \in 1..Len(o.map) :
    LET k == o.map[i][1]
        ov == o.map[i][2]
    IN HasKey(d, k) =>
         IF IsMap(ov) /\ IsMap(MapGet(d, k))
         THEN IsMap(MapGet(m, k)) /\ OverrideWins(MapGet(m, k), MapGet(d, k), ov)
         ELSE MapGet(m, k) = ov

RECURSIVE HasArray(_)
HasArray(v) ==
  \/ IsArr(v)
  \/ IsMap(v) /\ \E i \in 1..Len(v.map) : HasArray(v.map[i][2])

\* C5: at every key path that the inferred metadata and the override document
\* share, at every nesting level, the merged document holds the override's
\* value; an overriding array is taken as a whole, and the inferred metadata
\* holds no array that it could be merged with index by index.
C5_OverrideWins ==
  step = "def" =>
    /\ OverrideWins(defMerged, defInferred, userOverride)
    /\ ~HasArray(defInferred)

\* an array default from component.yml replaces the inferred text "[1, 2]"
C5_Witness ==
  /\ step = "def"
  /\ MapGet(MapGet(MapGet(MapGet(defInferred, "props"), "properties"), "items"),
            "default") = JStr("[1, 2]")
  /\ MapGet(MapGet(MapGet(MapGet(userOverride, "props"), "properties"), "items"),
            "default") = JArr(<<JNum(1), JNum(2)>>)
  /\ MapGet(MapGet(MapGet(MapGet(defMerged, "props"), "properties"), "items"),
            "default") = JArr(<<JNum(1), JNum(2)>>)

\* C6: merging the override document into the merged metadata once more
\* leaves it as it is.
C6_MergeIdempotent ==
  step = "def" => merge(defMerged, userOverride) = defMerged

\* an override with arrays that changed the inferred metadata
C6_Witness ==
  /\ step = "def"
  /\ HasArray(userOverride)
  /\ defMerged # defInferred
  /\ merge(defMerged, userOverride) = defMerged

----------------------------------------------------------------------------
(* Prop inference *)

\* the exported declarators of the script with an identifier name
ExportedDeclarators ==
  LET body == bodyOf(astIn)
  IN {body[i].declaration.declarations[1] :
        i \in {j \in 1..Len(body) :
                 /\ Type(body[j]) = "ExportNamedDeclaration"
                 /\ Has(body[j].declaration, "declarations")}}
schemaEntry(d) == MapGet(contextOut.context.props, d.id.name)
ContextBuilt == step \in {"context", "def"}

\* the bracketed, comma-space-joined raw text of the elements
BracketedRaw(elements) ==
  "[" \o JoinStrings([i \in 1..Len(elements) |->
                        IF Has(elements[i], "raw") THEN elements[i].raw ELSE ""],
                     ", ")
      \o "]"

HandledKinds == {"ArrayExpression", "Literal", "ObjectExpression"}

C9_PropsMatchSchema ==
  (step = "def" /\ IsMap(contextOut.context.props)) =>
    \A i \in 1..Len(contextOut.context.props.map) :
      LET key == contextOut.context.props.map[i][1]
          entry == contextOut.context.props.map[i][2]
          property == MapGet(MapGet(MapGet(defInferred, "props"), "properties"), key)
      IN /\ IsMap(property)
         /\ MapGet(property, "type") = MapGet(entry, "type")
         /\ HasKey(entry, "default") =>
              (HasKey(property, "default")
               /\ MapGet(property, "default") = MapGet(entry, "default"))

----------------------------------------------------------------------------
(* processFiles: the batch *)

MaxFiles == 2

\* a matched file: its path, whether the svelte parser rejects it, the AST it
\* parses to, its sidecar component.yml and whether a sibling .js file exists
GoodAst ==
  [instance |-> [content |-> [body |-> <<ExportLet("count", Literal("0", JNum(0))),
                                         CHOOSE st \in OtherStatements :
                                           st.type = "VariableDeclaration">>]],
   html |-> Fragment(<<Element("div", <<>>, <<Slot(<<>>, <<Text("x")>>)>>)>>)]
RaisingAst ==
  [instance |-> [content |-> [body |-> <<CHOOSE st \in OtherStatements :
                                           st.type = "ExportNamedDeclaration">>]],
   html |-> Fragment(<<Text("r")>>)]
MarkupOnlyAst == [html |-> Fragment(<<NamedSlot("header", <<Text("h")>>)>>)]

FileSamples ==
  {[path |-> "components/button/button.svelte", syntaxError |-> FALSE,
    ast |-> GoodAst, componentYml |-> NoFile, hasJs |-> TRUE],
   [path |-> "components/card/card.svelte", syntaxError |-> FALSE,
    ast |-> MarkupOnlyAst,
    componentYml |-> JMap(<< <<"name", JStr("Card")>> >>), hasJs |-> FALSE],
   [path |-> "components/broken/broken.svelte", syntaxError |-> TRUE,
    ast |-> MarkupOnlyAst, componentYml |-> NoFile, hasJs |-> FALSE],
   [path |-> "components/reset/reset.svelte", syntaxError |-> FALSE,
    ast |-> RaisingAst, componentYml |-> NoFile, hasJs |-> FALSE]}

BatchSamples ==
  {fs \in SeqsUpTo(FileSamples, MaxFiles) :
     \A i, j \in 1..Len(fs) : i # j => fs[i].path # fs[j].path}

BatchOptions ==
  {[theme |-> "mytheme", defaultSlotName |-> "content", saveAst |-> a,
    saveComponentDef |-> c, saveStyles |-> st, saveScripts |-> TRUE] :
     a \in BOOLEAN, c \in BOOLEAN, st \in BOOLEAN}

\* Object.entries(context.setStatements)
\*   .map(([key, value]) => `{% set ${key} = ${value} %}`).join('\n')
templateSetStatements(context) ==
  JoinStrings([i \in 1..Len(context.setStatements.map) |->
                 "{% set " \o context.setStatements.map[i][1] \o " = "
                   \o context.setStatements.map[i][2].str \o " %}"],
              "\n")

\* [templateSetStatements, templateBody].join('\n')
twigTemplate(context, ast, opts) ==
  templateSetStatements(context) \o "\n"
    \o Flat(convertNodeToTwig(Get(ast, "html"), opts).out)

\* one context object shared by the files of the batch: the slots and the set
\* statements of the file processed before stay in it
processParsedSharedContext(file, opts, c) ==
  LET before == IF idx > 1
                THEN createComponentContext(files[idx - 1].ast, files[idx - 1].path,
                                            loadComponentDef(files[idx - 1].componentYml),
                                            opts).context
                ELSE [slots |-> <<>>, setStatements |-> JMap(<<>>)]
      shared == [c.context EXCEPT
                   !.slots = before.slots \o @,
                   !.setStatements = JMap(before.setStatements.map \o @.map)]
      astWrite == IF opts.saveAst
                  THEN <<[path |-> file.path, kind |-> "ast", ast |-> file.ast]>>
                  ELSE <<>>
      jsWrite == IF opts.saveScripts /\ file.hasJs
                 THEN <<[path |-> file.path, kind |-> "js"]>>
                 ELSE <<>>
      defWrite == IF opts.saveComponentDef
                  THEN <<[path |-> file.path, kind |-> "component.yml",
                          doc |-> convertNodeToComponentDef(file.ast, shared)]>>
                  ELSE <<>>
  IN IF ~c.ok THEN [ok |-> FALSE, writes |-> <<>>, pending |-> <<>>]
     ELSE [ok |-> TRUE,
           writes |-> astWrite \o jsWrite \o defWrite,
           pending |-> <<[path |-> file.path,
                          template |-> twigTemplate(shared, file.ast, opts)]>>]

\* the rest of processFile once createComponentContext has returned c: the
\* files it writes itself and the saveTwigToFile call it leaves pending
processParsed(file, opts, c) ==
  LET astWrite == IF opts.saveAst
                  THEN <<[path |-> file.path, kind |-> "ast", ast |-> file.ast]>>
                  ELSE <<>>
      jsWrite == IF opts.saveScripts /\ file.hasJs
                 THEN <<[path |-> file.path, kind |-> "js"]>>
                 ELSE <<>>
      defWrite == IF opts.saveComponentDef
                  THEN <<[path |-> file.path, kind |-> "component.yml",
                          doc |-> convertNodeToComponentDef(file.ast, c.context)]>>
                  ELSE <<>>
  IN IF ~c.ok THEN [ok |-> FALSE, writes |-> <<>>, pending |-> <<>>]
     ELSE [ok |-> TRUE,
           writes |-> astWrite \o jsWrite \o defWrite,
           pending |-> <<[path |-> file.path,
                          template |-> twigTemplate(c.context, file.ast, opts)]>>]

\* the function processFile(options) returns, applied to one file; ok is
\* FALSE when it raises (in the parser or in createComponentContext)
processFile(file, opts) ==
  IF file.syntaxError
  THEN [ok |-> FALSE, writes |-> <<>>, pending |-> <<>>]
  ELSE processParsed(file, opts,
                     createComponentContext(file.ast, file.path,
                                            loadComponentDef(file.componentYml),
                                            opts))

BatchInit ==
  /\ options \in BatchOptions
  /\ node = Undefined
  /\ mode = "idle"
  /\ res = NoResult
  /\ ContextIdle
  /\ files \in BatchSamples
  /\ phase = "start"
  /\ idx = 0
  /\ done = {}
  /\ writes = <<>>
  /\ pending = <<>>
  /\ console = <<>>
  /\ WalkIdle

\* await glob(...) resolves with the matched files: the forEach starts
GlobResolves ==
  /\ phase = "start"
  /\ phase' = "loop"
  /\ idx' = 1
  /\ UNCHANGED <<files, done, writes, pending, console, options>>
  /\ UNCHANGED <<node, mode, res>>
  /\ UNCHANGED cvars
  /\ UNCHANGED wvars

\* await glob(...) rejects: the catch logs and processFiles returns
GlobRejects ==
  /\ phase = "start"
  /\ phase' = "returned"
  /\ console' = Append(console, "Error finding files:")
  /\ UNCHANGED <<files, idx, done, writes, pending, options>>
  /\ UNCHANGED <<node, mode, res>>
  /\ UNCHANGED cvars
  /\ UNCHANGED wvars

\* one call of the forEach callback that returns
ProcessFile ==
  /\ phase = "loop"
  /\ idx <= Len(files)
  /\ \E r \in {processFile(files[idx], options)} :
       /\ r.ok
       /\ writes' = writes \o r.writes
       /\ pending' = pending \o r.pending
  /\ done' = done \cup {idx}
  /\ idx' = idx + 1
  /\ UNCHANGED <<files, phase, console, options>>
  /\ UNCHANGED <<node, mode, res>>
  /\ UNCHANGED cvars
  /\ UNCHANGED wvars

\* one call of the forEach callback that raises: the exception leaves the
\* forEach, the catch of processFiles logs it and returns
ProcessFileRaises ==
  /\ phase = "loop"
  /\ idx <= Len(files)
  /\ ~processFile(files[idx], options).ok
  /\ console' = Append(console, "Error finding files:")
  /\ phase' = "returned"
  /\ UNCHANGED <<files, idx, done, writes, pending, options>>
  /\ UNCHANGED <<node, mode, res>>
  /\ UNCHANGED cvars
  /\ UNCHANGED wvars

\* the forEach is over: copyScssFiles if options.saveStyles, then the return
FinishBatch ==
  /\ phase = "loop"
  /\ idx > Len(files)
  /\ writes' = IF options.saveStyles
               THEN Append(writes, [path |-> "**/components/**/*.scss", kind |-> "scss"])
               ELSE writes
  /\ phase' = "returned"
  /\ UNCHANGED <<files, idx, done, pending, console, options>>
  /\ UNCHANGED <<node, mode, res>>
  /\ UNCHANGED cvars
  /\ UNCHANGED wvars

\* prettier.format of a pending saveTwigToFile call settles, after the
\* synchronous run of processFiles is over: the template is written,
\* formatted, or as it is when the formatter rejected it
FormatSettles ==
  /\ phase = "returned"
  /\ \E i \in 1..Len(pending), formatted \in BOOLEAN :
       /\ writes' = Append(writes, [path |-> pending[i].path, kind |-> "twig",
                                    template |-> pending[i].template,
                                    formatted |-> formatted])
       /\ pending' = [j \in 1..(Len(pending) - 1) |->
                        IF j < i THEN pending[j] ELSE pending[j + 1]]
  /\ UNCHANGED <<files, phase, idx, done, console, options>>
  /\ UNCHANGED <<node, mode, res>>
  /\ UNCHANGED cvars
  /\ UNCHANGED wvars

Init == BatchInit

Next ==
  \/ GlobResolves
  \/ GlobRejects
  \/ ProcessFile
  \/ ProcessFileRaises
  \/ FinishBatch
  \/ FormatSettles

Spec == Init /\ [][Next]_vars

\* the file raises in the parser or in createComponentContext
Faulty(file) == ~processFile(file, options).ok

\* C2: a fault while one matched file is processed does not keep the other
\* matched files from being processed: when processFiles has returned from a
\* batch it found, every file that raises no fault has been processed.
C2_BatchContinues ==
  (phase = "returned" /\ idx >= 1) =>
    \A i \in 1..Len(files) : ~Faulty(files[i]) => i \in done

----------------------------------------------------------------------------
(* The scans of createComponentContext: slots and set statements *)

\* {#if c}<slot name="main"/>{:else}<slot name="alt"/>{/if}
IfElseSlots ==
  [type |-> "IfBlock", expression |-> Identifier("c"),
   children |-> <<NamedSlot("main", <<>>)>>,
   else |-> [type |-> "ElseBlock", children |-> <<NamedSlot("alt", <<>>)>>]]
\* <slot name=""/> and <slot name={x}/>
EmptyNameSlot == Slot(<<Attribute("name", <<Text("")>>)>>, <<>>)
ExpressionNameSlot == Slot(<<Attribute("name", <<MustacheTag(Identifier("x"))>>)>>, <<>>)

\* {#key k}<slot name="header"/>{/key}
KeyedSlot ==
  [type |-> "KeyBlock", expression |-> Identifier("k"),
   children |-> <<NamedSlot("header", <<>>)>>]

SlotHtmlSamples ==
  {Fragment(<<Text("a")>>),
   Fragment(<<KeyedSlot, NamedSlot("footer", <<>>)>>),
   Fragment(<<Slot(<<>>, <<>>), NamedSlot("header", <<Text("h")>>)>>),
   Fragment(<<Element("div", <<>>,
                      <<NamedSlot("a", <<NamedSlot("b", <<>>), Slot(<<>>, <<>>)>>),
                        NamedSlot("a", <<>>)>>),
              NamedSlot("c", <<>>)>>),
   Fragment(<<IfElseSlots, Slot(<<>>, <<>>)>>),
   Fragment(<<NamedSlot("header", <<>>), EmptyNameSlot>>),
   Fragment(<<ExpressionNameSlot>>),
   Fragment(<<NamedSlot("header", <<>>), ValuelessNameSlot>>)}

\* $: total = count;  let a = 1, b = 2;
RebindTotal ==
  [type |-> "LabeledStatement",
   body |-> [type |-> "ExpressionStatement",
             expression |-> [type |-> "AssignmentExpression", operator |-> "=",
                             left |-> Identifier("total"),
                             right |-> Identifier("count")]]]
TwoDeclarators ==
  [type |-> "VariableDeclaration",
   declarations |-> <<[type |-> "VariableDeclarator", id |-> Identifier("a"),
                       init |-> Literal("1", JNum(1))],
                      [type |-> "VariableDeclarator", id |-> Identifier("b"),
                       init |-> Literal("2", JNum(2))]>>]
ScanStatements == OtherStatements \cup {RebindTotal, TwoDeclarators}

\* the configuration, the optional defaultSlotName left unset in one
ScanOptions == OptionsSamples \cup {[theme |-> "mytheme"]}

ScanInit ==
  /\ options \in ScanOptions
  /\ node = Undefined
  /\ mode = "idle"
  /\ res = NoResult
  /\ astIn \in {[instance |-> [content |-> [body |-> b]], html |-> h] :
                  b \in SeqsUpTo(ScanStatements, MaxStatements),
                  h \in SlotHtmlSamples}
  /\ pathIn = "components/button/button.svelte"
  /\ componentYml = NoFile
  /\ contextOut = NoContext
  /\ defInferred = Undefined
  /\ defMerged = Undefined
  /\ componentDef = Undefined
  /\ step = "parsed"
  /\ BatchIdle
  /\ WalkIdle

SpecScan == ScanInit /\ [][ContextNext]_vars

\* the identifier a Slot resolves to: the data of the first piece of its name
\* attribute, the configured default without a name attribute
ResolvedSlotId(n) ==
  IF HasNameAttribute(n)
  THEN IF Has(NameAttributeOf(n).value.arr[1], "data")
       THEN JStr(NameAttributeOf(n).value.arr[1].data) ELSE Undefined
  ELSE IF Has(options, "defaultSlotName") THEN JStr(options.defaultSlotName)
  ELSE Undefined

RECURSIVE ConcatAll(_)
ConcatAll(seqs) == IF seqs = <<>> THEN <<>> ELSE Head(seqs) \o ConcatAll(Tail(seqs))

\* the Slot nodes under n in document order, following children only
RECURSIVE SlotsUnderChildren(_)
SlotsUnderChildren(n) ==
  (IF Type(n) = "Slot" THEN <<n>> ELSE <<>>)
    \o (IF Has(n, "children")
        THEN ConcatAll([i \in 1..Len(n.children) |-> SlotsUnderChildren(n.children[i])])
        ELSE <<>>)

\* the Slot nodes under n in document order, the {:else} branch included
RECURSIVE SlotsOfTree(_)
SlotsOfTree(n) ==
  (IF Type(n) = "Slot" THEN <<n>> ELSE <<>>)
    \o (IF Has(n, "children")
        THEN ConcatAll([i \in 1..Len(n.children) |-> SlotsOfTree(n.children[i])])
        ELSE <<>>)
    \o (IF Has(n, "else") THEN SlotsOfTree(n.else) ELSE <<>>)

SlotIds(ns) == [i \in 1..Len(ns) |-> ResolvedSlotId(ns[i])]

\* C11: the SlotList createComponentContext returns holds the resolved
\* identifier of every Slot node of the render tree, in pre-order, one entry
\* per occurrence and no deduplication, an unnamed Slot contributing the
\* configured default.
C11_EverySlotListed ==
  ContextBuilt => contextOut.context.slots = SlotIds(SlotsOfTree(astIn.html))

\* what the scan does collect: the Slot nodes reached from the root through
\* children, in pre-order, one entry per occurrence
SlotsUnderChildrenListed ==
  ContextBuilt => contextOut.context.slots = SlotIds(SlotsUnderChildren(astIn.html))

\* C12: every entry of the SlotList createComponentContext returns is a
\* non-empty string.
C12_SlotEntriesNonEmpty ==
  ContextBuilt =>
    \A i \in 1..Len(contextOut.context.slots) :
      /\ Has(contextOut.context.slots[i], "str")
      /\ contextOut.context.slots[i].str # ""

\* the names a top-level statement binds, each with its initializer: a
\* labeled `=` assignment, every declarator of a plain variable declaration
BindingsOf(st) ==
  IF Type(st) = "LabeledStatement"
  THEN IF Type(Get(st, "body")) = "ExpressionStatement"
          /\ Type(Get(st.body, "expression")) = "AssignmentExpression"
          /\ Str(st.body.expression, "operator") = "="
       THEN << <<st.body.expression.left.name, st.body.expression.right>> >>
       ELSE <<>>
  ELSE IF Type(st) = "VariableDeclaration"
  THEN [i \in 1..Len(st.declarations) |->
          <<st.declarations[i].id.name, Get(st.declarations[i], "init")>>]
  ELSE <<>>

Bindings ==
  ConcatAll([i \in 1..Len(bodyOf(astIn)) |-> BindingsOf(bodyOf(astIn)[i])])

\* C13: the SetStatementMap maps every name bound by a top-level labeled
\* assignment or by a top-level plain variable declaration to the value-mode
\* translation of its initializer, the last binding of a name in source order
\* being the one kept.
C13_BindingsRecorded ==
  ContextBuilt =>
    \A i \in 1..Len(Bindings) :
      (\A j \in (i + 1)..Len(Bindings) : Bindings[j][1] # Bindings[i][1]) =>
        MapGet(contextOut.context.setStatements, Bindings[i][1]) =
          JStr(Flat(convertNodeToObjectLiteral(Bindings[i][2], options).out))

----------------------------------------------------------------------------
(* Rules of the template-mode translator *)

\* the translated attributes and children of the node under translation
AttributesInValueMode == JoinToks(Outs(ObjAll(node.attributes, options)), ", ")
AttributesInTemplateMode == JoinToks(Outs(TwigAll(node.attributes, options)), " ")
TranslatedChildren == JoinToks(Outs(TwigAll(node.children, options)), "")

TitleAndOpen == <<Attribute("title", <<Text("t")>>), BooleanAttribute("open")>>

\* C14: in template mode an InlineComponent without children is rendered as
\* include('<id>', {<attrs>}, with_context = false); with children it is
\* rendered as embed "<id>" with {<attrs>} only, overriding exactly one block,
\* named by the configured default slot name, around the translated children;
\* <attrs> is the comma-joined value-mode translation of the attributes.
C14_IncludeOrEmbed ==
  (mode = "twig" /\ Type(node) = "InlineComponent") =>
    /\ node.children = <<>> =>
         res.out = <<"\n{{ include('", inlineComponentId(node.name, options), "', {">>
                     \o AttributesInValueMode
                     \o <<"}, with_context = false) }}">>
    /\ node.children # <<>> =>
         res.out = <<"\n{% embed \"", inlineComponentId(node.name, options),
                     "\" with {">>
                     \o AttributesInValueMode
                     \o <<"} only %}", "\n            ", "{% block ",
                          options.defaultSlotName, " %}", "\n            ">>
                     \o TranslatedChildren
                     \o <<"\n            ", "{% endblock %}", "\n          ",
                          "{% endembed %}">>
    /\ node.attributes = TitleAndOpen =>
         AttributesInValueMode = <<"title", ": ", "'", "t", "'", ", ", "open">>

\* <Card title="t" open>a</Card> under the default slot name main
C14_Witness ==
  /\ mode = "twig"
  /\ node = InlineComponent("Card", TitleAndOpen, <<Text("a")>>)
  /\ options.defaultSlotName = "main"
  /\ res.out = <<"\n{% embed \"", "mytheme:card", "\" with {", "title", ": ", "'",
                 "t", "'", ", ", "open", "} only %}", "\n            ",
                 "{% block ", "main", " %}", "\n            ", "a",
                 "\n            ", "{% endblock %}", "\n          ",
                 "{% endembed %}">>

\* the identifier of each sampled tag name under the namespace mytheme
ExpectedComponentId(name) ==
  CASE name = "My-Widget" -> "mytheme:my-widget"
    [] name = "Card" -> "mytheme:card"
    [] name = "ui.Tab_2" -> "mytheme:ui-tab-2"

\* C15: the identifier of an InlineComponent is its tag name with every
\* non-alphanumeric character replaced by `-`, lower-cased, behind the
\* namespace and a colon: My-Widget under mytheme gives mytheme:my-widget.
C15_ComponentIdentifier ==
  (mode = "twig" /\ Type(node) = "InlineComponent") =>
    /\ res.out[2] = ExpectedComponentId(node.name)
    /\ inlineComponentId(node.name, options) = ExpectedComponentId(node.name)

C15_Witness ==
  /\ mode = "twig"
  /\ Type(node) = "InlineComponent"
  /\ node.name = "My-Widget"
  /\ res.out[2] = "mytheme:my-widget"

\* C16: in template mode an EachBlock with the array pattern [a, b] over
\* items is rendered as a loop binding a, b over items; with any other context
\* it binds items_item over items; the loop wraps the translated children.
C16_EachBinding ==
  (mode = "twig" /\ Type(node) = "EachBlock" /\ Has(node, "context")) =>
    /\ Type(node.context) = "ArrayPattern" =>
         res.out = <<"{% for ", "a", ", ", "b", " in ", "items", " %}">>
                     \o TranslatedChildren \o <<"{% endfor %}">>
    /\ Type(node.context) # "ArrayPattern" =>
         res.out = <<"{% for ", "items", "_item", " in ", "items", " %}">>
                     \o TranslatedChildren \o <<"{% endfor %}">>

\* {#each items as x}a{a}{/each}
C16_Witness ==
  /\ mode = "twig"
  /\ node = EachBlock(Identifier("x"), Identifier("items"),
                      <<Text("a"), MustacheTag(Identifier("a"))>>)
  /\ res.out = <<"{% for ", "items", "_item", " in ", "items", " %}", "a",
                 "{{ ", "a", " }}", "{% endfor %}">>

SelfClosingNames ==
  {"area", "base", "br", "col", "embed", "hr", "img", "input", "link", "meta",
   "param", "source", "track", "wbr"}

\* C17: an Element with a self-closing name is rendered as <name attrs />,
\* without closing tag and without its children; any other Element as
\* <name attrs>children</name>, the attributes joined by spaces and the
\* children concatenated in order.
C17_ElementForm ==
  (mode = "twig" /\ Type(node) = "Element" /\ Has(node, "children")) =>
    /\ node.name \in SelfClosingNames =>
         res.out = <<"<", node.name, " ">> \o AttributesInTemplateMode \o <<" />">>
    /\ node.name \notin SelfClosingNames =>
         res.out = <<"<", node.name, " ">> \o AttributesInTemplateMode \o <<">">>
                     \o TranslatedChildren \o <<"</", node.name, ">">>

\* <img class="c" hidden> with children in the tree: none of them rendered
C17_Witness ==
  /\ mode = "twig"
  /\ Type(node) = "Element"
  /\ node.name = "img"
  /\ Len(node.children) = 2
  /\ res.out = <<"<", "img", " ", "class", "=\"", "c", "\"", " ", "hidden", " />">>

----------------------------------------------------------------------------
(* Operators in both translators *)

\* C18: in both translators a BinaryExpression with === is rendered as the
\* same expression with ==, one with !== as the same expression with !=, the
\* operator emitted being == and != respectively; every other operator is
\* emitted as it is.
C18_EqualityOperators ==
  (mode # "idle" /\ Type(node) = "BinaryExpression") =>
    /\ res.out = ConvOf(mode, node.left).out
                   \o <<" ",
                        CASE node.operator \in {"===", "=="} -> "=="
                          [] node.operator \in {"!==", "!="} -> "!="
                          [] OTHER -> node.operator,
                        " ">>
                   \o ConvOf(mode, node.right).out
    /\ node.operator = "===" =>
         res.out = ConvOf(mode, [node EXCEPT !.operator = "=="]).out
    /\ node.operator = "!==" =>
         res.out = ConvOf(mode, [node EXCEPT !.operator = "!="]).out

\* a === 1 in value mode
C18_Witness ==
  /\ mode = "object"
  /\ node = BinaryExpression("===", Identifier("a"), Literal("1", JNum(1)))
  /\ res.out = <<"a", " ", "==", " ", "1">>

\* C19: in value mode a LogicalExpression a || b is rendered as a|default(b)
\* and a && b as a ? b, a and b being the value-mode translations of the
\* operands; the keywords and, or are not emitted.
C19_ValueModeLogical ==
  (mode = "object" /\ Type(node) = "LogicalExpression") =>
    /\ node.operator = "||" =>
         res.out = convertNodeToObjectLiteral(node.left, options).out
                     \o <<"|default(">>
                     \o convertNodeToObjectLiteral(node.right, options).out
                     \o <<")">>
    /\ node.operator = "&&" =>
         res.out = convertNodeToObjectLiteral(node.left, options).out
                     \o <<" ? ">>
                     \o convertNodeToObjectLiteral(node.right, options).out
    /\ node.operator \in {"||", "&&"} =>
         /\ "and" \notin Range(res.out)
         /\ "or" \notin Range(res.out)

\* a || (b && c) in value mode
C19_Witness ==
  /\ mode = "object"
  /\ node = LogicalExpression("||", Identifier("a"),
                              LogicalExpression("&&", Identifier("b"), Identifier("c")))
  /\ res.out = <<"a", "|default(", "b", " ? ", "c", ")">>

----------------------------------------------------------------------------
(* Control constructs of the output *)

\* the construct a piece of output opens or closes
Opens(tok) ==
  CASE tok = "{% if " -> "if"
    [] tok = "{% for " -> "for"
    [] tok = "{% block " -> "block"
    [] tok = "\n{% embed \"" -> "embed"
    [] OTHER -> ""
Closes(tok) ==
  CASE tok = "{% endif %}" -> "if"
    [] tok = "{% endfor %}" -> "for"
    [] tok = "{% endblock %}" -> "block"
    [] tok = "{% endembed %}" -> "embed"
    [] OTHER -> ""

\* every closer from piece i on closes the innermost open construct, and
\* nothing is left open at the end; open lists the open constructs, innermost
\* first
RECURSIVE Balanced(_, _, _)
Balanced(toks, i, open) ==
  IF i > Len(toks) THEN open = <<>>
  ELSE IF Opens(toks[i]) # "" THEN Balanced(toks, i + 1, <<Opens(toks[i])>> \o open)
  ELSE IF Closes(toks[i]) # ""
  THEN /\ open # <<>>
       /\ Head(open) = Closes(toks[i])
       /\ Balanced(toks, i + 1, Tail(open))
  ELSE Balanced(toks, i + 1, open)

\* C20: the output of convertNodeToTwig for any node, a node whose rule
\* faulted or a node of unknown kind included, has its if/endif, for/endfor,
\* block/endblock and embed/endembed pairs balanced and properly nested.
C20_BalancedConstructs ==
  mode = "twig" => Balanced(res.out, 1, <<>>)

\* an if block around an each block around an if block, next to a child that
\* faulted
C20_Witness ==
  /\ mode = "twig"
  /\ Type(node) = "IfBlock"
  /\ Has(node, "children") /\ Len(node.children) = 2
  /\ Type(node.children[1]) = "EachBlock"
  /\ ~TwigRule(node.children[2], options).ok
  /\ res.out = <<"{% if ", "c", " %}", "{% for ", "items", "_item", " in ", "items",
                 " %}", "{% if ", "e", " %}", "t", "{% endif %}", "{% endfor %}",
                 "{% endif %}">>

----------------------------------------------------------------------------
(* Faults of the prop inference *)

\* C21: whatever top-level ExportNamedDeclaration statements the script
\* holds, the walk that infers the props raises nothing, and
\* createComponentContext returns a context.
C21_PropInferenceNeverRaises ==
  step \in {"context", "raised", "def"} =>
    /\ inferProps([props |-> JNull, log |-> <<>>, ok |-> TRUE], bodyOf(astIn), 1).ok
    /\ contextOut.ok

----------------------------------------------------------------------------
(* Files of one batch *)

\* the matched file of a path, and what processFile makes of it on its own
FileAt(p) == CHOOSE f \in Range(files) : f.path = p
ContextAlone(f) ==
  createComponentContext(f.ast, f.path, loadComponentDef(f.componentYml),
                         options).context
TemplateAlone(f) == twigTemplate(ContextAlone(f), f.ast, options)
MetadataAlone(f) == convertNodeToComponentDef(f.ast, ContextAlone(f))

----------------------------------------------------------------------------
(* Object literals with spreads, in value mode *)

\* one entry as a map of its own: a Property between braces, key and value
\* translated in value mode; a spread as the reference it spreads
EntryAsMap(p) ==
  IF Type(p) = "Property"
  THEN <<"{">> \o convertNodeToObjectLiteral(p.key, options).out \o <<": ">>
         \o convertNodeToObjectLiteral(p.value, options).out \o <<"}">>
  ELSE convertNodeToObjectLiteral(p.argument, options).out

HasSpread(n) ==
  \E i \in 1..Len(n.properties) : Type(n.properties[i]) = "SpreadElement"

\* C24: in value mode an ObjectExpression with a SpreadElement is rendered as
\* its first entry, a literal map for a Property and the spread reference for
\* a SpreadElement, followed by |merge( ... ) holding every later entry in
\* source order, a Property as a literal map of its own and a spread as its
\* reference.
C24_SpreadOrder ==
  (mode = "object" /\ Type(node) = "ObjectExpression" /\ HasSpread(node)) =>
    res.out = EntryAsMap(node.properties[1]) \o <<"|merge(">>
                \o JoinToks([i \in 1..(Len(node.properties) - 1) |->
                               EntryAsMap(node.properties[i + 1])], ", ")
                \o <<")">>

\* {a: 1, ...rest, a: x}
C24_Witness ==
  /\ mode = "object"
  /\ node = ObjectExpression(<<Property("a", Literal("1", [num |-> 1])),
                               SpreadElement(Identifier("rest")),
                               Property("a", Identifier("x"))>>)
  /\ res.out = <<"{", "a", ": ", "1", "}", "|merge(", "rest", ", ",
                 "{", "a", ": ", "x", "}", ")">>

----------------------------------------------------------------------------
(* Template literals in value mode *)

\* what one part contributes in value mode: a quasi as a quoted string,
\* a || b as a|default(b), a && b as a ? b, another expression as the rule
\* translates it
FragmentOf(e) ==
  IF Type(e) = "TemplateElement"
  THEN IF e.value.raw = "" THEN <<>> ELSE <<"'", e.value.raw, "'">>
  ELSE IF Type(e) = "LogicalExpression" /\ e.operator = "||"
  THEN convertNodeToObjectLiteral(e.left, options).out \o <<"|default(">>
         \o convertNodeToObjectLiteral(e.right, options).out \o <<")">>
  ELSE IF Type(e) = "LogicalExpression" /\ e.operator = "&&"
  THEN convertNodeToObjectLiteral(e.left, options).out \o <<" ? ">>
         \o convertNodeToObjectLiteral(e.right, options).out
  ELSE convertNodeToTwig(e, options).out

FragmentsOf(t) ==
  [k \in 1..Cardinality(PartsOf(t)) |-> FragmentOf(PartAtRank(t, k))]

Delimiters == {"{{ ", " }}", ") }}"}

\* C25: in value mode a template literal with at least one expression is the
\* non-empty fragments of its quasis and expressions, in ascending order of
\* source offset, joined with ' ~ ', and the text holds no interpolation
\* delimiter {{ or }}, whatever the kinds of its expressions.
C25_ValueTemplateLiteral ==
  (mode = "object" /\ Type(node) = "TemplateLiteral"
                   /\ Len(node.expressions) > 0) =>
    /\ res.out = JoinToks(SelectSeq(FragmentsOf(node), LAMBDA o : o # <<>>), " ~ ")
    /\ Range(res.out) \cap Delimiters = {}

\* `pre-${`in${x}`}` as a value: 'pre-' ~ in{{ x }}
NestedLiteralKeepsDelimiters ==
  /\ mode = "object"
  /\ node = TemplateLiteral(<<TemplateElement("pre-", 1), TemplateElement("", 16)>>,
                <<TemplateLiteral(<<TemplateElement("in", 8), TemplateElement("", 14)>>,
                                  <<IdentifierAt("x", 12)>>) @@ [start |-> 7]>>)
  /\ res.out = <<"'", "pre-", "'", " ~ ", "in", "{{ ", "x", " }}">>

----------------------------------------------------------------------------
(* Kinds and sub-cases without a rule *)

\* the case labels of the two switches
TwigKinds ==
  {"Attribute", "AttributeShorthand", "ArrayPattern", "BinaryExpression",
   "CallExpression", "ConditionalExpression", "Fragment", "Literal",
   "LogicalExpression", "Element", "Identifier", "MemberExpression",
   "MustacheTag", "IfBlock", "InlineComponent", "EachBlock", "RawMustacheTag",
   "Slot", "TemplateElement", "TemplateLiteral", "Text", "UnaryExpression"}
ObjKinds ==
  {"ArrayExpression", "ArrayPattern", "Attribute", "AttributeShorthand",
   "BinaryExpression", "CallExpression", "ConditionalExpression", "Identifier",
   "Literal", "LogicalExpression", "ObjectExpression", "MemberExpression",
   "MustacheTag", "Property", "RawMustacheTag", "SpreadElement",
   "TemplateElement", "TemplateLiteral", "Text"}

UnknownKind(n, m) ==
  /\ ~IsNullish(n)
  /\ \/ m = "twig" /\ Type(n) \notin TwigKinds
     \/ m = "object" /\ Type(n) \notin ObjKinds
\* a value-mode LogicalExpression that is neither && nor ||
UnruledLogical(n, m) ==
  /\ m = "object"
  /\ Type(n) = "LogicalExpression"
  /\ Str(n, "operator") \notin {"&&", "||"}

Silent(r) == r.out = <<>> /\ r.ok /\ r.log = <<>>

\* C26: a node of a kind without a case, and a node of a kind with a case in
\* a sub-case without a rule, such as a value-mode LogicalExpression whose
\* operator is neither && nor ||, is translated to the empty text with no
\* fault raised and nothing logged.
C26_UnruledIsSilent ==
  (UnknownKind(node, mode) \/ UnruledLogical(node, mode)) => Silent(res)

\* the part about kinds without a case
UnknownKindIsSilent == UnknownKind(node, mode) => Silent(res)

\* a ?? 1 as a value: empty text, and the fault of the ObjectExpression rule
\* it falls into is on the console
NullishCoalescingLogged ==
  /\ mode = "object"
  /\ node = LogicalExpression("??", Identifier("a"), Literal("1", JNum(1)))
  /\ res.out = <<>>
  /\ Len(res.log) = 2
  /\ res.log[1].msg = "Error converting node to object literal:"

----------------------------------------------------------------------------
(* Slots of the metadata against blocks of the template *)

\* the names of the blocks in a template text that come from Slot nodes, in
\* order; the block an embed overrides is not one of them
RECURSIVE SlotBlockNames(_, _)
SlotBlockNames(out, i) ==
  IF i > Len(out) THEN <<>>
  ELSE IF /\ out[i] = "{% block "
          /\ ~(i > 2 /\ out[i - 1] = "\n            " /\ out[i - 2] = "} only %}")
  THEN <<IF i < Len(out) /\ out[i + 1] # " %}" THEN out[i + 1] ELSE "">>
         \o SlotBlockNames(out, i + 1)
  ELSE SlotBlockNames(out, i + 1)

\* a slot identifier as a template text shows it
SlotIdText(v) == IF Has(v, "str") THEN v.str ELSE "undefined"

SlotListNames ==
  [i \in 1..Len(contextOut.context.slots) |-> SlotIdText(contextOut.context.slots[i])]

\* C27: for every render tree, the names of the blocks convertNodeToTwig
\* emits for Slot nodes are the SlotList createComponentContext collects for
\* the same tree: same identifiers, same order, same number of occurrences.
C27_SlotsAgree ==
  ContextBuilt =>
    SlotBlockNames(convertNodeToTwig(astIn.html, options).out, 1) = SlotListNames

\* {#key k}<slot name="header"/>{/key}<slot name="footer"/>: two slots
\* listed, one block in the template
KeyedSlotListedNotEmitted ==
  /\ ContextBuilt
  /\ astIn.html = Fragment(<<KeyedSlot, NamedSlot("footer", <<>>)>>)
  /\ SlotListNames = <<"header", "footer">>
  /\ SlotBlockNames(convertNodeToTwig(astIn.html, options).out, 1) = <<"footer">>

\* the two agree on a tree made of kinds the template translator has a case for
SlotsAgreeOnTwigKinds ==
  (ContextBuilt /\ astIn.html # Fragment(<<KeyedSlot, NamedSlot("footer", <<>>)>>)) =>
    SlotBlockNames(convertNodeToTwig(astIn.html, options).out, 1) = SlotListNames

----------------------------------------------------------------------------
(* Template writes against the completion of processFiles *)

TwigWritten(p) ==
  \E k \in 1..Len(writes) : writes[k].kind = "twig" /\ writes[k].path = p
StylesCopied == \E k \in 1..Len(writes) : writes[k].kind = "scss"

\* C28: when processFiles has completed, the template of every file it
\* processed has been written; no template write is pending then, nor when the
\* style files have been copied.
C28_TemplatesWrittenOnReturn ==
  /\ phase = "returned" =>
       /\ pending = <<>>
       /\ \A i \in done : TwigWritten(files[i].path)
  /\ StylesCopied => pending = <<>>

\* every file processed, the styles copied, processFiles returned, and no
\* template on disk yet
TemplatesPendingAtReturn ==
  /\ phase = "returned"
  /\ Len(files) = 2
  /\ done = {1, 2}
  /\ StylesCopied
  /\ Len(pending) = 2
  /\ ~TwigWritten(files[1].path)

----------------------------------------------------------------------------
(* The template text of a file: set statements, then the body *)

\* the bindings the scan records, in source order: a labeled `=` assignment,
\* the first declarator of a plain variable declaration
RecordedBindingsOf(st) ==
  IF Type(st) = "VariableDeclaration"
  THEN SubSeq(BindingsOf(st), 1, 1) ELSE BindingsOf(st)
RecordedBindings ==
  ConcatAll([i \in 1..Len(bodyOf(astIn)) |-> RecordedBindingsOf(bodyOf(astIn)[i])])

\* the bindings that are the first of their name, in source order
FirstBindings ==
  SelectSeq([i \in 1..Len(RecordedBindings) |-> <<i, RecordedBindings[i][1]>>],
            LAMBDA b : \A j \in 1..(b[1] - 1) : RecordedBindings[j][1] # b[2])
\* the initializer of the last binding of a name
LastInitializer(name) ==
  RecordedBindings[CHOOSE i \in 1..Len(RecordedBindings) :
                     /\ RecordedBindings[i][1] = name
                     /\ \A j \in (i + 1)..Len(RecordedBindings) :
                          RecordedBindings[j][1] # name][2]
SetLine(name) ==
  "{% set " \o name \o " = "
    \o Flat(convertNodeToObjectLiteral(LastInitializer(name), options).out) \o " %}"

\* C29: the template text of a file is one {% set name = value %} line per
\* distinct bound name, in the order of the first binding of each name and
\* with the value of its last binding, then a newline, then the translated
\* render tree: every set statement precedes the whole body.
C29_SetStatementsThenBody ==
  ContextBuilt =>
    twigTemplate(contextOut.context, astIn, options) =
      JoinStrings([i \in 1..Len(FirstBindings) |-> SetLine(FirstBindings[i][2])], "\n")
        \o "\n" \o Flat(convertNodeToTwig(astIn.html, options).out)

\* let total = 1; $: total = count; over <slot/><slot name="header">h</slot>
C29_Witness ==
  /\ ContextBuilt
  /\ Len(RecordedBindings) = 2
  /\ Len(FirstBindings) = 1
  /\ Type(bodyOf(astIn)[1]) = "VariableDeclaration"
  /\ astIn.html = Fragment(<<Slot(<<>>, <<>>), NamedSlot("header", <<Text("h")>>)>>)
  /\ options = [defaultSlotName |-> "content", theme |-> "mytheme"]
  /\ twigTemplate(contextOut.context, astIn, options) =
       "{% set total = count %}\n{% block content %}{% endblock %}"
         \o "{% block header %}h{% endblock %}"

----------------------------------------------------------------------------
(* The recursion of the translators and of findSlots, call by call *)

\* what a dispatch rule calls, in the order of its calls: calls lists the
\* calls made, ok is FALSE when the rule raised (after those calls)
NoCalls == [calls |-> <<>>, ok |-> TRUE]
CallsFault == [calls |-> <<>>, ok |-> FALSE]
ThenCalls(a, b) ==
  IF ~a.ok THEN a ELSE [calls |-> a.calls \o b.calls, ok |-> b.ok]
RECURSIVE CallsFrom(_, _)
CallsFrom(parts, i) ==
  IF i > Len(parts) THEN NoCalls ELSE ThenCalls(parts[i], CallsFrom(parts, i + 1))
\* convertNodeTo...(n[f], options)
CallOn(n, f, tr) == [calls |-> <<[node |-> Get(n, f), tr |-> tr]>>, ok |-> TRUE]
\* xs.map(childNode => convertNodeTo...(childNode, options))
CallsOver(xs, tr) ==
  [calls |-> [i \in 1..Len(xs) |-> [node |-> xs[i], tr |-> tr]], ok |-> TRUE]
\* the same map over the node itself
CallsMapOnSelf(n, f, tr) ==
  IF Has(n, f)
  THEN [calls |-> [i \in 1..Len(n[f]) |-> [node |-> n, tr |-> tr]], ok |-> TRUE]
  ELSE CallsFault

\* n[f].map(...); n[f] undefined raises
CallsMap(n, f, tr) == IF Has(n, f) THEN CallsOver(n[f], tr) ELSE CallsFault

\* the callback over the offset-sorted elements of a template literal
TwigPartCalls(childNode) ==
  IF IsNullish(childNode) THEN CallsFault
  ELSE IF Type(childNode) = "TemplateElement"
  THEN IF Has(childNode, "value") /\ Has(childNode.value, "raw")
       THEN NoCalls ELSE CallsFault
  ELSE IF Type(childNode) = "LogicalExpression" /\ Str(childNode, "operator") = "||"
  THEN ThenCalls(CallOn(childNode, "left", "object"),
                 CallOn(childNode, "right", "object"))
  ELSE [calls |-> <<[node |-> childNode, tr |-> "twig"]>>, ok |-> TRUE]

ObjPartCalls(childNode) ==
  IF IsNullish(childNode) THEN CallsFault
  ELSE IF Type(childNode) = "TemplateElement"
  THEN IF Has(childNode, "value") THEN NoCalls ELSE CallsFault
  ELSE IF Type(childNode) = "LogicalExpression"
          /\ Str(childNode, "operator") \in {"||", "&&"}
  THEN ThenCalls(CallOn(childNode, "left", "object"),
                 CallOn(childNode, "right", "object"))
  ELSE [calls |-> <<[node |-> childNode, tr |-> "twig"]>>, ok |-> TRUE]

\* elements.map(childNode => ...) over the sorted elements
PartsCalls(elements, tr) ==
  CallsFrom([i \in 1..Len(elements) |->
               IF tr = "twig" THEN TwigPartCalls(elements[i])
               ELSE ObjPartCalls(elements[i])], 1)

TemplateLiteralCalls(n, tr) ==
  IF Has(n, "expressions") /\ Len(n.expressions) > 0
  THEN IF ~Has(n, "quasis") THEN CallsFault
       ELSE CHOOSE r \in {PartsCalls(elements, tr) :
                            elements \in {TemplateLiteralElements(n)}} : TRUE
  ELSE CallsMap(n, "quasis", "twig")

\* the value list of an attribute
AttributeCalls(n, tr) ==
  IF Has(n, "value") /\ n.value = JsTrue THEN NoCalls
  ELSE IF ~Has(n, "value") \/ ~IsArr(n.value) THEN CallsFault
  ELSE CallsOver(n.value.arr, tr)

\* the name attribute of a Slot is read before its children are visited
SlotNameRead(n) ==
  IF ~Has(n, "attributes") THEN CallsFault
  ELSE LET k == FindNameAttribute(n.attributes)
       IN IF k = 0 THEN NoCalls
          ELSE IF ~Has(n.attributes[k], "value") \/ ~IsArr(n.attributes[k].value)
                  \/ n.attributes[k].value.arr = <<>>
          THEN CallsFault
          ELSE NoCalls

\* the calls of the switch of convertNodeToTwig
TwigCalls(n) ==
  IF IsNullish(n) THEN CallsFault
  ELSE CASE Type(n) = "Attribute" -> AttributeCalls(n, "twig")
    [] Type(n) = "ArrayPattern" -> CallsMap(n, "elements", "twig")
    [] Type(n) \in {"BinaryExpression", "LogicalExpression"} ->
         ThenCalls(CallOn(n, "left", "twig"), CallOn(n, "right", "twig"))
    [] Type(n) = "CallExpression" ->
         IF ~Has(n, "callee") THEN CallsFault
         ELSE IF Type(n.callee) = "MemberExpression" /\ ~Has(n.callee, "object")
         THEN CallsFault
         ELSE IF Type(n.callee) = "MemberExpression"
                 /\ Str(n.callee.object, "name") = "Object"
                 /\ ~Has(n.callee, "property")
         THEN CallsFault
         ELSE IF Type(n.callee) = "MemberExpression"
                 /\ Str(n.callee.object, "name") = "Object"
                 /\ Str(n.callee.property, "name") = "entries"
         THEN CallsMap(n, "arguments", "twig")
         ELSE ThenCalls(CallOn(n, "callee", "twig"), CallsMap(n, "arguments", "twig"))
    [] Type(n) = "ConditionalExpression" ->
         CallsFrom(<<CallOn(n, "test", "twig"), CallOn(n, "consequent", "object"),
                     CallOn(n, "alternate", "object")>>, 1)
    [] Type(n) = "Fragment" ->
         IF Has(n, "children") THEN CallsMap(n, "children", "twig") ELSE NoCalls
    [] Type(n) = "Element" ->
         ThenCalls(CallsMap(n, "attributes", "twig"), CallsMap(n, "children", "twig"))
    [] Type(n) = "MemberExpression" ->
         ThenCalls(CallOn(n, "object", "twig"), CallOn(n, "property", "twig"))
    [] Type(n) = "MustacheTag" ->
         IF Has(n, "expression") THEN CallOn(n, "expression", "twig") ELSE CallsFault
    [] Type(n) = "IfBlock" ->
         ThenCalls(CallOn(n, "expression", "twig"), CallsMap(n, "children", "twig"))
    [] Type(n) = "InlineComponent" ->
         ThenCalls(CallsMap(n, "attributes", "object"),
                   IF ~Has(n, "name") \/ ~Has(n, "children") THEN CallsFault
                   ELSE IF Len(n.children) <= 0 THEN NoCalls
                   ELSE CallsMap(n, "children", "twig"))
    [] Type(n) = "EachBlock" ->
         ThenCalls(CallsMap(n, "children", "twig"),
                   IF ~Has(n, "context") THEN CallsFault
                   ELSE IF Type(n.context) = "ArrayPattern"
                   THEN ThenCalls(CallOn(n, "context", "twig"),
                                  CallOn(n, "expression", "twig"))
                   ELSE ThenCalls(CallOn(n, "expression", "twig"),
                                  CallOn(n, "expression", "twig")))
    [] Type(n) = "RawMustacheTag" -> CallOn(n, "expression", "twig")
    [] Type(n) = "Slot" -> ThenCalls(SlotNameRead(n), CallsMap(n, "children", "twig"))
    [] Type(n) = "TemplateLiteral" -> TemplateLiteralCalls(n, "twig")
    [] Type(n) = "UnaryExpression" -> CallOn(n, "argument", "twig")
    [] OTHER -> NoCalls

\* the calls of the switch of convertNodeToObjectLiteral
ObjCalls(n) ==
  IF IsNullish(n) THEN CallsFault
  ELSE CASE Type(n) = "ArrayExpression" -> CallsMap(n, "elements", "object")
    [] Type(n) = "ArrayPattern" -> CallsMap(n, "elements", "twig")
    [] Type(n) = "Attribute" -> AttributeCalls(n, "object")
    [] Type(n) = "BinaryExpression"
         \/ (Type(n) = "LogicalExpression" /\ Str(n, "operator") \in {"&&", "||"}) ->
         ThenCalls(CallOn(n, "left", "object"), CallOn(n, "right", "object"))
    [] Type(n) = "CallExpression" ->
         ThenCalls(CallOn(n, "callee", "object"), CallsMap(n, "arguments", "object"))
    [] Type(n) = "ConditionalExpression" ->
         CallsFrom(<<CallOn(n, "test", "object"), CallOn(n, "consequent", "object"),
                     CallOn(n, "alternate", "object")>>, 1)
    [] Type(n) \in {"LogicalExpression", "ObjectExpression"} ->
         IF ~Has(n, "properties") THEN CallsFault
         ELSE IF \E i \in 1..Len(n.properties) : IsNullish(n.properties[i])
         THEN CallsFault
         ELSE CallsOver(n.properties, "object")
    [] Type(n) = "MemberExpression" ->
         ThenCalls(CallOn(n, "object", "object"), CallOn(n, "property", "object"))
    [] Type(n) = "MustacheTag" -> CallOn(n, "expression", "object")
    [] Type(n) = "Property" ->
         ThenCalls(CallOn(n, "key", "object"), CallOn(n, "value", "object"))
    [] Type(n) = "RawMustacheTag" -> CallOn(n, "expression", "twig")
    [] Type(n) = "SpreadElement" -> CallOn(n, "argument", "object")
    [] Type(n) = "TemplateLiteral" -> TemplateLiteralCalls(n, "object")
    [] OTHER -> NoCalls

\* the calls of findSlots
SlotCalls(n) ==
  IF IsNullish(n) THEN CallsFault
  ELSE ThenCalls(IF Type(n) = "Slot" THEN SlotNameRead(n) ELSE NoCalls,
                 IF Has(n, "children") THEN CallsOver(n.children, "slots")
                 ELSE NoCalls)

\* what the function tr does on node n
Calls(n, tr) ==
  CASE tr = "twig" -> TwigCalls(n)
    [] tr = "object" -> ObjCalls(n)
    [] OTHER -> SlotCalls(n)

\* a call in progress: its node, the function called, the calls it has still
\* to make and whether its rule raises after them
Frame(n, tr) ==
  [node |-> n, tr |-> tr, todo |-> Calls(n, tr).calls, raises |-> ~Calls(n, tr).ok]
Top == stack[Len(stack)]

\* a translator is called on a node, or findSlots on the root of a render tree
WalkInit ==
  /\ options = CHOOSE o \in OptionsSamples : o.defaultSlotName = "content"
  /\ \/ node \in Samples /\ \E tr \in {"twig", "object"} : stack = <<Frame(node, tr)>>
     \/ node \in SlotHtmlSamples /\ stack = <<Frame(node, "slots")>>
  /\ deepest = 1
  /\ mode = "idle"
  /\ res = NoResult
  /\ ContextIdle
  /\ BatchIdle

\* the innermost call makes its next call
WalkCall ==
  /\ stack # <<>>
  /\ Top.todo # <<>>
  /\ stack' = Append([stack EXCEPT ![Len(stack)].todo = Tail(@)],
                     Frame(Head(Top.todo).node, Head(Top.todo).tr))
  /\ deepest' = IF Len(stack) + 1 > deepest THEN Len(stack) + 1 ELSE deepest
  /\ UNCHANGED tvars
  /\ UNCHANGED cvars
  /\ UNCHANGED bvars

\* the innermost call has made its calls and returns: a translator returns
\* also when its rule raised, its catch being in the same call
WalkReturn ==
  /\ stack # <<>>
  /\ Top.todo = <<>>
  /\ Top.tr \in {"twig", "object"} \/ ~Top.raises
  /\ stack' = SubSeq(stack, 1, Len(stack) - 1)
  /\ UNCHANGED deepest
  /\ UNCHANGED tvars
  /\ UNCHANGED cvars
  /\ UNCHANGED bvars

\* findSlots raises: nothing catches it, every call in progress is left
WalkRaise ==
  /\ stack # <<>>
  /\ Top.todo = <<>>
  /\ Top.tr = "slots" /\ Top.raises
  /\ stack' = <<>>
  /\ UNCHANGED deepest
  /\ UNCHANGED tvars
  /\ UNCHANGED cvars
  /\ UNCHANGED bvars

WalkNext == WalkCall \/ WalkReturn \/ WalkRaise

\* a call in progress goes on: the program is sequential and nothing waits
SpecWalk == WalkInit /\ [][WalkNext]_vars /\ WF_vars(WalkNext)

\* the nodes directly under a node
SubNodes(n) ==
  IF IsNullish(n) THEN {}
  ELSE UNION {Range(n[f]) : f \in ListFields \cap DOMAIN n}
         \cup {n[f] : f \in NodeFields \cap DOMAIN n}
         \cup (IF Has(n, "value") /\ IsArr(n.value) THEN Range(n.value.arr)
               ELSE IF Has(n, "value") /\ Has(n.value, "type") THEN {n.value}
               ELSE {})

\* the number of levels of the trees rooted at the nodes of ns
RECURSIVE Levels(_)
Levels(ns) ==
  IF ns = {} THEN 0 ELSE 1 + Levels(UNION {SubNodes(c) : c \in ns})

\* the number of nodes on the longest path from n down
Depth(n) == Levels({n})

\* the nodes under the nodes of ns, at any depth
RECURSIVE Under(_)
Under(ns) ==
  IF ns = {} THEN {}
  ELSE UNION {SubNodes(c) : c \in ns} \cup Under(UNION {SubNodes(c) : c \in ns})

\* every call in progress but the outermost is on a node under the node of
\* its caller (a child, or a child's operand for the || and && parts of a
\* template literal), or on a child the caller's node does not have
StrictDescent ==
  \A i \in 2..Len(stack) :
    \/ stack[i].node \in Under({stack[i - 1].node})
    \/ IsNullish(stack[i].node) /\ i = Len(stack)

\* the calls in progress on nodes are no more than the tree is deep
DepthBounded ==
  (stack # <<>>) =>
    Len(stack) - (IF IsNullish(Top.node) THEN 1 ELSE 0) <= Depth(node)

\* C23: on a finite tree the mutual recursion of convertNodeToTwig and
\* convertNodeToObjectLiteral and the recursion of findSlots terminate: every
\* recursive call is on a strict sub-node of the caller's node, the calls in
\* progress never outnumber the levels of the tree, and the outermost call
\* ends.
C23_RecursionTerminates ==
  /\ [](StrictDescent /\ DepthBounded)
  /\ <>(stack = <<>>)

\* the translation of an if block around an each block around an if block is
\* over and went four calls deep
C23_Witness ==
  /\ stack = <<>>
  /\ deepest = 4
  /\ Depth(node) = 4
  /\ Type(node) = "IfBlock"
  /\ Has(node, "children") /\ Len(node.children) = 2
  /\ Type(node.children[1]) = "EachBlock"

----------------------------------------------------------------------------
(* The calls leave their inputs as they were *)

\* C30: no step of processFile changes what it is handed: building the
\* context and translating the body leave the AST as it was, the quasis and
\* expressions arrays of a template literal in their original order, and
\* building the metadata leaves the props and the slots of the context and the
\* loaded override document as they were.
C30_InputsUnchanged ==
  [][/\ astIn' = astIn
     /\ step = "context" =>
          /\ contextOut'.context.props = contextOut.context.props
          /\ contextOut'.context.slots = contextOut.context.slots
          /\ contextOut'.context.component = contextOut.context.component]_vars

\* export let items = [1, 2]; let label = `x=${e}`; over
\* {`x=${e}`}<slot name="header"/>, with an override of the default of items:
\* all three steps done, the literal rendered by offset, its arrays not
C30_Witness ==
  /\ step = "template"
  /\ Len(bodyOf(astIn)) = 2
  /\ bodyOf(astIn)[1] = ExportLet("items", ArrayExpression(<<Literal("1", JNum(1)),
                                                            Literal("2", JNum(2))>>))
  /\ Type(bodyOf(astIn)[2]) = "VariableDeclaration"
  /\ bodyOf(astIn)[2].declarations[1].init = UnsortedLiteral
  /\ astIn.html = Fragment(<<MustacheTag(UnsortedLiteral), NamedSlot("header", <<>>)>>)
  /\ MapGet(contextOut.context.setStatements, "label") = JStr("'x=' ~ e")
  /\ res.out = <<"x=", "{{ ", "e", " }}", "{% block ", "header", " %}",
                 "{% endblock %}">>
  /\ contextOut.context.slots = <<JStr("header")>>
  /\ MapGet(MapGet(contextOut.context.props, "items"), "default") = JStr("[1, 2]")
  /\ Has(MapGet(MapGet(MapGet(MapGet(contextOut.context.component, "props"),
                              "properties"), "items"), "default"), "arr")

====
